---- MODULE Spec2Model ----
(***************************************************************************)
(* templUI client-side runtime: the selection control (selectbox.js), the  *)
(* step sequencer (stepper.js) and the date picker, as state machines.     *)
(***************************************************************************)
EXTENDS Integers, Sequences, FiniteSets, TLC

\* ------------------------------------------------------------- bounds
NumElems == 2      \* .select-container elements in the document
NumOptions == 2    \* .select-item options of every content element
MaxInst == 2       \* SelectBox objects alive at once
MaxDepth == 1      \* nested dispatches whose listeners call back into the API
MaxArr == 2        \* length of an array passed to setValue
NumSteppers == 2   \* [data-stepper] containers in the document
NumSteps == 2      \* [data-step] children of every stepper
NumModals == 2     \* <dialog data-modal> elements in the document
MaxPending == 2    \* close timers of one dialog that are pending at a time
MaxSeeds == 1      \* zero-delay timers of trigger key presses pending per control
NumPickers == 2    \* [data-datepicker] trigger buttons in the document

Elems == 1..NumElems
Options == 1..NumOptions
\* option values a caller can pass: the last one matches no option
Values == 1..(NumOptions + 1)
\* a string with a double quote in it that is no option's value
Quote == NumOptions + 2
Slots == 1..MaxInst
Steppers == 1..NumSteppers
Pickers == 1..NumPickers

VARIABLES
  markup,      \* selectbox: what the renderer emitted for each element (read-only)
  marked,      \* selectbox: element carries data-initialized
  attrSel,     \* selectbox: options of the element's content with data-selected="true"
  hidden,      \* selectbox: value of the hidden input (the joined values, in order)
  display,     \* selectbox: what the .select-value element shows
  instances,   \* selectbox: the WeakMap element -> SelectBox (0: no entry)
  inst,        \* selectbox: the SelectBox objects, by slot
  hostListens, \* the page registered lifecycle listeners that call the API back
  popover,     \* window.closePopover is defined (the popover script is loaded)
  focus,       \* the element that has the keyboard focus
  stack,       \* dispatches of selectbox:init / selectbox:destroy in progress
  events,      \* notifications dispatched by the most recent call
  error,       \* exception the most recent call ended with ("none" if it returned)
  lastInit,    \* history: the init call made last and how often in a row, or the
               \* selectItem call that found isSelecting set
  stepper,     \* stepper: per container, markup and controller state
  picker,      \* date picker: per trigger button, markup and controller state
  modal,       \* modal: per <dialog>, its open state, classes and pending close timers
  search       \* selectbox: the [data-select-search] input of the element's content
               \* and the options its filter hid

vars == <<markup, marked, attrSel, hidden, display, instances, inst, hostListens, popover,
          focus, stack, events, error, lastInit, stepper, picker, search, modal>>

\* ------------------------------------------------------------ helpers
RECURSIVE SetToSeq(_)
\* the members of a set of numbers in ascending (document) order
SetToSeq(S) ==
  IF S = {} THEN <<>>
  ELSE LET m == CHOOSE x \in S : \A y \in S : x <= y
       IN <<m>> \o SetToSeq(S \ {m})

Range(s) == {s[k] : k \in 1..Len(s)}

RECURSIVE Without(_, _)
\* Set.prototype.delete on an insertion-ordered set
Without(s, v) ==
  IF s = <<>> THEN <<>>
  ELSE IF Head(s) = v THEN Without(Tail(s), v)
  ELSE <<Head(s)>> \o Without(Tail(s), v)

\* Set.prototype.add on an insertion-ordered set
SetAdd(s, v) == IF v \in Range(s) THEN s ELSE Append(s, v)

\* JavaScript values crossing the public surface: null, a scalar or an array
NullVal == [tag |-> "null", v |-> <<>>]
Scalar(x) == [tag |-> "val", v |-> <<x>>]
Arr(s) == [tag |-> "arr", v |-> s]

SeqsUpTo(S, n) == UNION {[1..k -> S] : k \in 0..n}

\* the bubbles option each dispatch site passes to the event constructor; the
\* stepper passes none, and the default is false
Bubbles(type) ==
  type \in {"selectbox:init", "selectbox:change", "selectbox:reset", "selectbox:destroy",
            "change", "input"}

\* a notification: CustomEvent / Event with its target and detail
Ev(type, el, i, value, prev, item) ==
  [type |-> type, el |-> el, inst |-> i, value |-> value, prev |-> prev, item |-> item,
   bubbles |-> Bubbles(type)]

\* EventTarget.dispatchEvent: listeners on the target run; listeners on its
\* ancestors run only when the event bubbles
HeardOnAncestor(ev) == ev.bubbles

\* content of the .select-value element: the placeholder, the text of option
\* arg, the count text for arg items, one pill per option of items, or nothing.
\* check is the instance whose overflow check of these pills is pending
Placeholder == [kind |-> "placeholder", arg |-> 0, items |-> {}, check |-> 0, by |-> 0]
Label(o) == [kind |-> "label", arg |-> o, items |-> {}, check |-> 0, by |-> 0]
Count(n) == [kind |-> "count", arg |-> n, items |-> {}, check |-> 0, by |-> 0]
Pills(S, i) == [kind |-> "pills", arg |-> 0, items |-> S, check |-> i, by |-> i]
Blank == [kind |-> "blank", arg |-> 0, items |-> {}, check |-> 0, by |-> 0]

\* document.activeElement: the body, or the trigger button of element e
NoFocus == [kind |-> "body", el |-> 0]
TriggerFocus(e) == [kind |-> "trigger", el |-> e]
\* the search field of element e's content, option o of element e's content
SearchFocus(e) == [kind |-> "search", el |-> e]
OptionFocus(e, o) == [kind |-> "option", el |-> e, opt |-> o]

NoFrame == [op |-> "none", elem |-> 0, inst |-> 0, rest |-> <<>>]
StuckFrame == [op |-> "stuck", elem |-> 0, inst |-> 0, rest |-> <<>>]

\* ------------------------------------------------- selectbox: objects
\* constructor(element, options): the fields before init() runs
NewSelectBox(e) ==
  [elem |-> e, complete |-> FALSE, attached |-> FALSE, multiple |-> FALSE,
   showPills |-> FALSE, sel |-> <<>>, isSelecting |-> FALSE, settle |-> 0,
   refocus |-> 0, destroyed |-> FALSE]

FreeSlot == NewSelectBox(0)

\* the selectbox part of the state as one record the methods transform
World ==
  [marked |-> marked, attrSel |-> attrSel, hidden |-> hidden, display |-> display,
   instances |-> instances, inst |-> inst, events |-> events, error |-> error,
   search |-> search]

SetWorld(w) ==
  /\ marked' = w.marked
  /\ attrSel' = w.attrSel
  /\ hidden' = w.hidden
  /\ display' = w.display
  /\ instances' = w.instances
  /\ inst' = w.inst
  /\ events' = w.events
  /\ error' = w.error
  /\ search' = w.search

\* a call starts: nothing dispatched yet, nothing thrown
Entered(w) == [w EXCEPT !.events = <<>>, !.error = "none"]

Dispatch(w, ev) == [w EXCEPT !.events = Append(@, ev)]

\* getValue()
GetValue(o) ==
  IF o.multiple THEN Arr(o.sel)
  ELSE IF Len(o.sel) > 0 THEN Scalar(o.sel[1]) ELSE NullVal

\* renderPills(selectedItems): empties the value element, then builds one pill
\* per item; an item without .select-item-text makes it throw before the pills
\* are appended. The overflow check is left pending
RenderPills(w, i, selectedItems) ==
  LET e == w.inst[i].elem
  IN IF \E k \in 1..Len(selectedItems) : selectedItems[k] \in markup[e].textless
       THEN [w EXCEPT !.display[e] = Blank, !.error = "TypeError"]
       ELSE [w EXCEPT !.display[e] = Pills(Range(selectedItems), i)]

\* updateDisplay(): reads the data-selected attributes, not the set
UpdateDisplay(w, i) ==
  LET e == w.inst[i].elem
      selectedItems == SetToSeq(w.attrSel[e])
  IN IF Len(selectedItems) = 0 THEN [w EXCEPT !.display[e] = Placeholder]
     ELSE IF w.inst[i].multiple
       THEN IF w.inst[i].showPills
              THEN RenderPills(w, i, selectedItems)
              ELSE [w EXCEPT !.display[e] = Count(Len(selectedItems))]
       ELSE IF selectedItems[1] \in markup[e].textless
              THEN w
              ELSE [w EXCEPT !.display[e] = Label(selectedItems[1])]

\* b() unless a() threw
Unless(thrown, w) == IF thrown.error # "none" THEN thrown ELSE w

\* updateHiddenInput(): join the set, dispatch change when the string differs
UpdateHiddenInput(w, i) ==
  LET e == w.inst[i].elem
      oldValue == w.hidden[e]
      newValue == w.inst[i].sel
      w1 == [w EXCEPT !.hidden[e] = newValue]
  IN IF oldValue # newValue
       THEN Dispatch(w1, Ev("change", e, i, NullVal, <<>>, 0))
       ELSE w1

\* ---- search field ([data-select-search] inside the content)
\* strings are sequences of characters
Chars == {"a", "A", "b", " "}
MaxTerm == 2
Terms == SeqsUpTo(Chars, MaxTerm)

\* String.prototype.toLowerCase
ToLowerCase(str) ==
  [k \in 1..Len(str) |-> IF str[k] = "A" THEN "a" ELSE IF str[k] = "B" THEN "b" ELSE str[k]]

RECURSIVE TrimStart(_)
TrimStart(str) ==
  IF str # <<>> /\ Head(str) = " " THEN TrimStart(Tail(str)) ELSE str

RECURSIVE TrimEnd(_)
TrimEnd(str) ==
  IF str # <<>> /\ str[Len(str)] = " " THEN TrimEnd(SubSeq(str, 1, Len(str) - 1)) ELSE str

\* String.prototype.trim
Trim(str) == TrimEnd(TrimStart(str))

\* String.prototype.includes
Includes(str, part) ==
  \E k \in 0..(Len(str) - Len(part)) : SubSeq(str, k + 1, k + Len(part)) = part

\* textContent of the option's .select-item-text ('' when the option has none)
ItemText(e, o) ==
  IF o \in markup[e].textless THEN <<>>
  ELSE IF o = 1 THEN <<"A", "b">> ELSE <<"B">>

\* the option's data-value
ItemValue(e, o) ==
  IF o \in markup[e].quoted THEN <<"b", "\"">>
  ELSE IF o = 1 THEN <<"a">> ELSE <<"b">>

NoSearch == [present |-> FALSE, text |-> <<>>, hiddenOpts |-> {}, seeds |-> <<>>]
EmptySearch == [present |-> TRUE, text |-> <<>>, hiddenOpts |-> {}, seeds |-> <<>>]

\* the filter changes more than visibility: it deselects what it hides
FilterItemsDeselects(w, e, value) ==
  LET searchTerm == Trim(ToLowerCase(value))
      isVisible(o) ==
        \/ searchTerm = <<>>
        \/ Includes(ToLowerCase(ItemText(e, o)), searchTerm)
        \/ Includes(ToLowerCase(ItemValue(e, o)), searchTerm)
      gone == {o \in Options : ~isVisible(o)}
  IN [w EXCEPT !.search[e].hiddenOpts = gone, !.attrSel[e] = @ \ gone]

\* the 'input' listener of the search field: style.display of every option
FilterItems(w, e, value) ==
  LET searchTerm == Trim(ToLowerCase(value))
      isVisible(o) ==
        \/ searchTerm = <<>>
        \/ Includes(ToLowerCase(ItemText(e, o)), searchTerm)
        \/ Includes(ToLowerCase(ItemValue(e, o)), searchTerm)
  IN [w EXCEPT !.search[e].hiddenOpts = {o \in Options : ~isVisible(o)}]

\* an 'input' event on the search field: every controller wired to the
\* content runs its listener
InputEvent(w, e) ==
  LET w1 == Dispatch(w, Ev("input", e, 0, NullVal, <<>>, 0))
  IN IF \E j \in Slots : w.inst[j].elem = e /\ w.inst[j].attached
       THEN FilterItems(w1, e, w.search[e].text)
       ELSE w1

\* reset(): "Clear search if exists"
ClearSearch(w, e) ==
  IF w.search[e].present
    THEN InputEvent([w EXCEPT !.search[e].text = <<>>], e)
    ELSE w

\* initializeSelection()
InitializeSelection(w, i) ==
  LET e == w.inst[i].elem
      selectedItems == SetToSeq(w.attrSel[e])
      w1 == [w EXCEPT !.inst[i].sel = selectedItems]
      w2 == UpdateDisplay(w1, i)
  IN IF Len(selectedItems) > 0
       THEN Unless(w2, UpdateHiddenInput(w2, i))
       ELSE w1

\* new SelectBox(element): constructor and init(), up to and including the
\* dispatch of selectbox:init. When init() throws nothing refers to the object
Construct(w, e, i) ==
  LET m == markup[e]
      w1 == [w EXCEPT !.marked[e] = TRUE, !.inst[i] = NewSelectBox(e)]
  IN IF ~m.hasTrigger THEN w1
     ELSE IF ~m.hasParts THEN w1
     ELSE LET w2 == [w1 EXCEPT !.inst[i].complete = TRUE,
                                !.inst[i].multiple = m.multiple,
                                !.inst[i].showPills = m.showPills]
              w3 == InitializeSelection(w2, i)
              w4 == [w3 EXCEPT !.inst[i].attached = TRUE]
          IN Unless([w3 EXCEPT !.inst[i] = FreeSlot],
                    Dispatch(w4, Ev("selectbox:init", e, i, NullVal, <<>>, 0)))

\* destroy() of the object in slot i, up to and including the dispatch
DestroyInstance(w, i) ==
  LET e == w.inst[i].elem
      w1 == [w EXCEPT !.inst[i].attached = FALSE,
                      !.inst[i].destroyed = TRUE,
                      !.marked[e] = FALSE,
                      !.instances[e] = 0]
  IN Dispatch(w1, Ev("selectbox:destroy", e, i, NullVal, <<>>, 0))

FreeSlots(w) == {i \in Slots : w.inst[i].elem = 0}

RECURSIVE Scan(_, _, _)
\* elements.forEach of templUI.selectbox.init. With "pause" the run stops where
\* a listener of selectbox:init that calls back gets control (frame "init");
\* without it the listeners return at once and the loop runs to its end
Scan(w, els, pause) ==
  IF els = <<>> THEN [w |-> w, frame |-> NoFrame]
  ELSE LET e == Head(els) IN
    IF w.instances[e] # 0 THEN Scan(w, Tail(els), pause)
    ELSE IF FreeSlots(w) = {} THEN [w |-> w, frame |-> StuckFrame]
    ELSE LET i == CHOOSE x \in FreeSlots(w) : \A y \in FreeSlots(w) : x <= y
             w1 == Construct(w, e, i)
         IN IF w1.error # "none" THEN [w |-> w1, frame |-> NoFrame]
            ELSE IF w1.inst[i].complete /\ pause
              THEN [w |-> w1,
                    frame |-> [op |-> "init", elem |-> e, inst |-> i, rest |-> Tail(els)]]
              ELSE Scan([w1 EXCEPT !.instances[e] = i], Tail(els), pause)

\* document.querySelectorAll(selector): 0 is the default '.select-container',
\* e the selector of element e alone
Resolve(sel) ==
  IF sel = 0 THEN SetToSeq({e \in Elems : markup[e].present})
  ELSE IF markup[sel].present THEN <<sel>> ELSE <<>>

\* content.querySelector(`.select-item[data-value="${val}"]`): the option
\* found, 0 for none, -1 when the selector does not parse because the double
\* quote in val ends the attribute string early (SyntaxError)
Lookup(e, val) ==
  IF val = Quote \/ val \in markup[e].quoted THEN -1
  ELSE IF val \in Options THEN val
  ELSE 0

RECURSIVE AddValues(_, _, _)
\* values.forEach of setValue: select every value that has a matching option
AddValues(w, i, vals) ==
  IF vals = <<>> THEN w
  ELSE LET val == Head(vals)
           e == w.inst[i].elem
           item == Lookup(e, val)
       IN IF item = -1 THEN [w EXCEPT !.error = "SyntaxError"]
          ELSE IF item # 0
            THEN AddValues([w EXCEPT !.inst[i].sel = SetAdd(@, val),
                                     !.attrSel[e] = @ \cup {item}], i, Tail(vals))
            ELSE AddValues(w, i, Tail(vals))

\* setValue(value)
SetValue(w, i, value) ==
  LET e == w.inst[i].elem
      previousValues == w.inst[i].sel
      w1 == [w EXCEPT !.inst[i].sel = <<>>]
  IN IF ~w.inst[i].complete THEN [w1 EXCEPT !.error = "TypeError"]
     ELSE LET w2 == [w1 EXCEPT !.attrSel[e] = {}]
              values == IF value.tag = "null" THEN <<>> ELSE value.v
              added == AddValues(w2, i, values)
              w3 == UpdateDisplay(added, i)
              w4 == UpdateHiddenInput(w3, i)
          IN Unless(added,
               Unless(w3, Dispatch(w4, Ev("selectbox:change", e, i, GetValue(w4.inst[i]),
                                          previousValues, 0))))

\* the multiple branch of selectItem that only ever adds
ToggleItemAddsOnly(w, i, item) ==
  LET e == w.inst[i].elem
  IN [w EXCEPT !.inst[i].sel = SetAdd(@, item), !.attrSel[e] = @ \cup {item}]

\* selectItem(item), multiple: toggle the value in the set and on the option
ToggleItem(w, i, item) ==
  LET e == w.inst[i].elem
  IN IF item \in Range(w.inst[i].sel)
       THEN [w EXCEPT !.inst[i].sel = Without(@, item), !.attrSel[e] = @ \ {item}]
       ELSE [w EXCEPT !.inst[i].sel = Append(@, item), !.attrSel[e] = @ \cup {item}]

\* the single branch of selectItem that deselects the option when it is the
\* selected one
ChooseItemToggles(w, i, item) ==
  LET e == w.inst[i].elem
  IN IF w.inst[i].sel = <<item>>
       THEN [w EXCEPT !.inst[i].sel = <<>>, !.attrSel[e] = {},
                      !.inst[i].refocus = IF popover THEN @ + 1 ELSE @]
       ELSE [w EXCEPT !.inst[i].sel = <<item>>, !.attrSel[e] = {item},
                      !.inst[i].refocus = IF popover THEN @ + 1 ELSE @]

\* selectItem(item), single: clear every option, select this one; with the
\* popover script loaded the popover is closed and the return of focus to the
\* trigger is left pending
ChooseItem(w, i, item) ==
  LET e == w.inst[i].elem
  IN [w EXCEPT !.inst[i].sel = <<item>>, !.attrSel[e] = {item},
               !.inst[i].refocus = IF popover THEN @ + 1 ELSE @]

\* selectItem(item) without the isSelecting guard of its first line
SelectItemUnguarded(w, i, item) ==
  LET e == w.inst[i].elem
      previousValues == w.inst[i].sel
      w1 == [w EXCEPT !.inst[i].isSelecting = TRUE]
  IN IF ~w.inst[i].complete THEN [w1 EXCEPT !.error = "TypeError"]
     ELSE LET w2 == IF w1.inst[i].multiple
                      THEN ToggleItem(w1, i, item)
                      ELSE ChooseItem(w1, i, item)
              w3 == UpdateDisplay(w2, i)
              w4 == UpdateHiddenInput(w3, i)
              w5 == Dispatch(w4, Ev("selectbox:change", e, i, GetValue(w4.inst[i]),
                                    previousValues, item))
          IN Unless(w3, [w5 EXCEPT !.inst[i].settle = @ + 1])

\* selectItem(item)
SelectItem(w, i, item) ==
  LET e == w.inst[i].elem
      previousValues == w.inst[i].sel
      w1 == [w EXCEPT !.inst[i].isSelecting = TRUE]
  IN IF w.inst[i].isSelecting THEN w
     ELSE IF ~w.inst[i].complete THEN [w1 EXCEPT !.error = "TypeError"]
     ELSE LET w2 == IF w1.inst[i].multiple
                      THEN ToggleItem(w1, i, item)
                      ELSE ChooseItem(w1, i, item)
              w3 == UpdateDisplay(w2, i)
              w4 == UpdateHiddenInput(w3, i)
              w5 == Dispatch(w4, Ev("selectbox:change", e, i, GetValue(w4.inst[i]),
                                    previousValues, item))
          IN Unless(w3, [w5 EXCEPT !.inst[i].settle = @ + 1])

\* reset() that leaves the hidden input as it was
ResetKeepsField(w, i) ==
  LET e == w.inst[i].elem
      previousValues == w.inst[i].sel
      w1 == [w EXCEPT !.inst[i].sel = <<>>]
  IN IF ~w.inst[i].complete THEN [w1 EXCEPT !.error = "TypeError"]
     ELSE LET w2 == [w1 EXCEPT !.attrSel[e] = {},
                                !.display[e] = Placeholder]
              w3 == Dispatch(w2, Ev("change", e, i, NullVal, <<>>, 0))
              w4 == ClearSearch(w3, e)
          IN Dispatch(w4, Ev("selectbox:reset", e, i, NullVal, previousValues, 0))

\* reset()
Reset(w, i) ==
  LET e == w.inst[i].elem
      previousValues == w.inst[i].sel
      w1 == [w EXCEPT !.inst[i].sel = <<>>]
  IN IF ~w.inst[i].complete THEN [w1 EXCEPT !.error = "TypeError"]
     ELSE LET w2 == [w1 EXCEPT !.attrSel[e] = {},
                                !.display[e] = Placeholder,
                                !.hidden[e] = <<>>]
              w3 == Dispatch(w2, Ev("change", e, i, NullVal, <<>>, 0))
              w4 == ClearSearch(w3, e)
          IN Dispatch(w4, Ev("selectbox:reset", e, i, NullVal, previousValues, 0))

\* ------------------------------------------------- selectbox: actions
NoInit == [comp |-> "none", root |-> 0, n |-> 0]

\* history of init calls: n counts consecutive top-level calls on one root
Track(comp, root) ==
  lastInit' = IF stack # <<>> THEN NoInit
              ELSE [comp |-> comp, root |-> root,
                    n |-> IF lastInit.comp = comp /\ lastInit.root = root THEN 2 ELSE 1]

\* a dispatch hands control to listeners that call back while the nesting
\* allows it; deeper listeners return without calling
CanPause == hostListens /\ Len(stack) < MaxDepth

Push(frame) ==
  /\ frame.op # "stuck"
  /\ stack' = IF frame.op = "none" \/ ~CanPause THEN stack ELSE Append(stack, frame)

\* templUI.selectbox.init(selector)
SelectboxInit(sel) ==
  /\ LET r == Scan(Entered(World), Resolve(sel), CanPause)
     IN Push(r.frame) /\ SetWorld(r.w)
  /\ UNCHANGED <<markup, modal, hostListens, popover, focus, stepper, picker>>

\* the call with the history of init calls kept
SbInit(sel) == SelectboxInit(sel) /\ Track("selectbox", sel)

\* the call on a page whose history of init calls is not kept
SbInitPlain(sel) == SelectboxInit(sel) /\ lastInit' = NoInit

\* the running listener of selectbox:init / selectbox:destroy returns (what a
\* call it made threw stays inside dispatchEvent); an init frame goes on with
\* instances.set and the rest of its forEach
ListenerReturn ==
  /\ stack # <<>>
  /\ LET f == stack[Len(stack)]
         below == SubSeq(stack, 1, Len(stack) - 1)
         r == IF f.op = "init"
                THEN Scan([World EXCEPT !.instances[f.elem] = f.inst, !.error = "none"],
                          f.rest, TRUE)
                ELSE [w |-> World, frame |-> NoFrame]
     IN /\ r.frame.op # "stuck"
        /\ SetWorld(r.w)
        /\ stack' = IF r.frame.op = "none" THEN below ELSE Append(below, r.frame)
  /\ UNCHANGED <<markup, modal, hostListens, popover, focus, lastInit, stepper, picker>>

\* templUI.selectbox.destroy(selector) with an element or a selector of one
SbDestroy(e) ==
  /\ LET i == instances[e]
     IN IF i = 0
          THEN SetWorld(Entered(World)) /\ UNCHANGED stack
          ELSE /\ SetWorld(DestroyInstance(Entered(World), i))
               /\ Push([op |-> "destroy", elem |-> e, inst |-> i, rest |-> <<>>])
  /\ lastInit' = NoInit
  /\ UNCHANGED <<markup, modal, hostListens, popover, focus, stepper, picker>>

\* templUI.selectbox.destroy(): instances is a WeakMap, it has no forEach
SbDestroyAll ==
  /\ SetWorld([Entered(World) EXCEPT !.error = "TypeError"])
  /\ lastInit' = NoInit
  /\ UNCHANGED <<markup, modal, hostListens, popover, focus, stack, stepper, picker>>

\* instance.destroy() on a reference the host holds
InstDestroy(i) ==
  /\ inst[i].elem # 0
  /\ SetWorld(DestroyInstance(Entered(World), i))
  /\ Push([op |-> "destroy", elem |-> inst[i].elem, inst |-> i, rest |-> <<>>])
  /\ lastInit' = NoInit
  /\ UNCHANGED <<markup, modal, hostListens, popover, focus, stepper, picker>>

\* the host drops its last reference to an object nothing else refers to
Collect(i) ==
  /\ inst[i].elem # 0
  /\ ~inst[i].attached
  /\ inst[i].settle = 0
  /\ inst[i].refocus = 0
  /\ display[inst[i].elem].check # i
  /\ \A e \in Elems : instances[e] # i
  /\ \A k \in 1..Len(stack) : stack[k].inst # i
  /\ inst' = [inst EXCEPT ![i] = FreeSlot]
  /\ lastInit' = NoInit
  /\ UNCHANGED <<markup, modal, hostListens, popover, search, focus, marked, attrSel, hidden, display,
                 instances, stack, events, error, stepper, picker>>

\* an object the page still reaches: through the registry (the public surface)
\* or through the listeners it has attached (user input)
Live(i) == inst[i].elem # 0 /\ (inst[i].attached \/ instances[inst[i].elem] = i)

JSArgs == {NullVal} \cup {Scalar(x) : x \in Values}
            \cup {Arr(s) : s \in SeqsUpTo(Values, MaxArr)}

SetValueCall(i, value) ==
  /\ Live(i)
  /\ SetWorld(SetValue(Entered(World), i, value))
  /\ lastInit' = NoInit
  /\ UNCHANGED <<markup, modal, hostListens, popover, focus, stack, stepper, picker>>

\* history of a selectItem call the guard turned away
TurnedAway(i) == [comp |-> "selectItem", root |-> i, n |-> 0]

SelectItemCall(i, item) ==
  /\ Live(i)
  /\ SetWorld(SelectItem(Entered(World), i, item))
  /\ lastInit' = IF inst[i].isSelecting THEN TurnedAway(i) ELSE NoInit
  /\ UNCHANGED <<markup, modal, hostListens, popover, focus, stack, stepper, picker>>

\* the user edits the search field: its value changes, then 'input' fires
SearchInput(e, value) ==
  /\ search[e].present
  /\ SetWorld(InputEvent([Entered(World) EXCEPT !.search[e].text = value], e))
  /\ lastInit' = NoInit
  /\ UNCHANGED <<markup, modal, hostListens, popover, focus, stack, stepper, picker>>

ResetCall(i) ==
  /\ Live(i)
  /\ SetWorld(Reset(Entered(World), i))
  /\ lastInit' = NoInit
  /\ UNCHANGED <<markup, modal, hostListens, popover, focus, stack, stepper, picker>>

\* setTimeout(() => { this.state.isSelecting = false }, 100): due after the
\* 50 ms focus timer of the same selectItem call
SettleTimer(i) ==
  /\ inst[i].settle > 0
  /\ inst[i].refocus = 0
  /\ inst' = [inst EXCEPT ![i].isSelecting = FALSE, ![i].settle = @ - 1]
  /\ lastInit' = NoInit
  /\ UNCHANGED <<markup, modal, hostListens, popover, search, focus, marked, attrSel, hidden, display,
                 instances, stack, events, error, stepper, picker>>

\* setTimeout(() => this.triggerButton.focus(), 50) of selectItem
FocusTimer(i) ==
  /\ inst[i].refocus > 0
  /\ inst' = [inst EXCEPT ![i].refocus = @ - 1]
  /\ focus' = TriggerFocus(inst[i].elem)
  /\ lastInit' = NoInit
  /\ UNCHANGED <<markup, modal, hostListens, popover, search, marked, attrSel, hidden, display, instances,
                 stack, events, error, stepper, picker>>

\* the overflow check renderPills left pending: when the pills are wider than
\* the value element (the layout decides) the count text replaces them. A
\* check whose pills were replaced meanwhile measures a detached container
\* and does nothing
OverflowTimer(e, overflows) ==
  /\ display[e].check # 0
  /\ display' = [display EXCEPT ![e] = IF overflows THEN Count(Cardinality(display[e].items))
                                                   ELSE [@ EXCEPT !.check = 0]]
  /\ lastInit' = NoInit
  /\ UNCHANGED <<markup, modal, hostListens, popover, search, focus, marked, attrSel, hidden, instances, inst,
                 stack, events, error, stepper, picker>>

\* the user moves the focus off the control
Blur ==
  /\ focus # NoFocus
  /\ focus' = NoFocus
  /\ lastInit' = NoInit
  /\ UNCHANGED <<markup, modal, hostListens, popover, search, marked, attrSel, hidden, display, instances,
                 inst, stack, events, error, stepper, picker>>

\* ------------------------------------------- selectbox: user input
\* what a user gesture on the selection controls leaves alone besides the
\* focus
GestureFrame ==
  /\ lastInit' = NoInit
  /\ UNCHANGED <<markup, modal, hostListens, popover, stack, stepper, picker>>

\* the controllers whose listeners are on element e and its content
ListenersOn(w, e) == {i \in Slots : w.inst[i].elem = e /\ w.inst[i].attached}

\* the user puts the focus on a trigger button or into a search field
UserFocus(f) ==
  /\ f.kind = "search" => search[f.el].present
  /\ markup[f.el].present /\ markup[f.el].hasTrigger /\ markup[f.el].hasParts
  /\ focus # f
  /\ focus' = f
  /\ SetWorld(Entered(World))
  /\ GestureFrame

\* the user types in the search field that has the focus
UserTypes(e, value) ==
  /\ focus = SearchFocus(e)
  /\ SearchInput(e, value)

\* .select-item elements of the content that are not display:none, in
\* document order
VisibleItems(e) == SetToSeq(Options \ search[e].hiddenOpts)

\* Array.prototype.indexOf, counted from 0
IndexOf(items, x) ==
  IF \E k \in 1..Len(items) : items[k] = x
    THEN (CHOOSE k \in 1..Len(items) : items[k] = x) - 1
    ELSE -1

\* the remainder of JavaScript, whose sign is the dividend's
JSMod(a, n) == IF a >= 0 THEN a % n ELSE 0 - ((0 - a) % n)

\* the key event reaches the content of e: the focus is inside it
InContent(e) == focus.kind \in {"search", "option"} /\ focus.el = e

\* arrow keys that stop at the ends of the list instead of wrapping around
ArrowTargetClamped(e, down) ==
  LET visibleItems == VisibleItems(e)
      currentIndex == IndexOf(visibleItems, focus.opt)
      nextIndex ==
        IF focus.kind # "option" THEN 0
        ELSE IF down THEN (IF currentIndex + 1 < Len(visibleItems)
                             THEN currentIndex + 1 ELSE currentIndex)
        ELSE IF currentIndex > 0 THEN currentIndex - 1 ELSE 0
  IN IF visibleItems = <<>> THEN focus
     ELSE OptionFocus(e, visibleItems[nextIndex + 1])

\* handleContentKeydown, ArrowDown / ArrowUp: the element focused afterwards
ArrowTarget(e, down) ==
  LET visibleItems == VisibleItems(e)
      currentIndex == IndexOf(visibleItems, focus.opt)
      nextIndex ==
        IF focus.kind # "option" THEN 0
        ELSE IF down THEN JSMod(currentIndex + 1, Len(visibleItems))
        ELSE JSMod(currentIndex - 1 + Len(visibleItems), Len(visibleItems))
  IN IF visibleItems = <<>> THEN focus
     ELSE OptionFocus(e, visibleItems[nextIndex + 1])

\* ArrowDown or ArrowUp pressed inside the content of e
ArrowKey(e, down) ==
  /\ InContent(e)
  /\ focus' = IF ListenersOn(World, e) # {} THEN ArrowTarget(e, down) ELSE focus
  /\ SetWorld(Entered(World))
  /\ GestureFrame

\* Enter pressed inside the content of e: handleContentKeydown selects
\* .select-item:focus
EnterKey(e) ==
  /\ InContent(e)
  /\ LET on == ListenersOn(World, e)
     IN SetWorld(IF on # {} /\ focus.kind = "option"
                   THEN SelectItem(Entered(World), CHOOSE i \in on : TRUE, focus.opt)
                   ELSE Entered(World))
  /\ UNCHANGED focus
  /\ GestureFrame

\* handleItemClick: a pointer click on option o of the content of e
ItemClick(e, o) ==
  /\ markup[e].present /\ markup[e].hasParts
  /\ LET on == ListenersOn(World, e)
     IN SetWorld(IF on # {} /\ o \notin markup[e].disabled
                   THEN SelectItem(Entered(World), CHOOSE i \in on : TRUE, o)
                   ELSE Entered(World))
  /\ UNCHANGED focus
  /\ GestureFrame

\* keys a user presses on the trigger: a printable one, and Backspace
TriggerKeys == {<<"a">>, <<"Backspace">>}

\* keydown on the trigger button of e: the seeding of the search field is
\* left to a zero-delay timer
TriggerKey(e, key) ==
  /\ focus = TriggerFocus(e)
  /\ ListenersOn(World, e) # {}
  /\ Len(search[e].seeds) < MaxSeeds
  /\ SetWorld([Entered(World) EXCEPT !.search[e].seeds = Append(@, key)])
  /\ UNCHANGED focus
  /\ GestureFrame

\* the timer of the trigger's keydown handler: focuses the search field and
\* writes the key into it; no 'input' event follows an assignment to value
SeedTimer(e) ==
  /\ search[e].seeds # <<>>
  /\ LET key == Head(search[e].seeds)
         w == [Entered(World) EXCEPT !.search[e].seeds = Tail(@)]
     IN IF search[e].present
          THEN /\ focus' = SearchFocus(e)
               /\ SetWorld(IF key = <<"Backspace">> THEN w
                            ELSE [w EXCEPT !.search[e].text = key])
          ELSE UNCHANGED focus /\ SetWorld(w)
  /\ GestureFrame

\* a reset trigger that every control takes for its own
DesignatesAny(sel, e) == sel = sel

\* this.element.matches(selector) || this.element.id === selector.replace('#', '')
\* for the selector "#<id of element sel>"; 0 is the id of no element
Designates(sel, e) == sel = e

RECURSIVE ResetEach(_, _, _)
\* the externalResetHandler of each controller in turn
ResetEach(w, is, sel) ==
  IF is = <<>> THEN w
  ELSE LET i == Head(is)
       IN ResetEach(IF Designates(sel, w.inst[i].elem) THEN Reset(w, i) ELSE w,
                    Tail(is), sel)

\* a click on an element with data-selectbox-reset="#<id of element sel>",
\* wherever and whenever the page inserted it
ResetClick(sel) ==
  /\ SetWorld(ResetEach(Entered(World),
                        SetToSeq({i \in Slots : inst[i].elem # 0 /\ inst[i].attached}), sel))
  /\ UNCHANGED focus
  /\ GestureFrame

\* closeButton.onclick of the pill of option o, as renderPills built it
PillRemove(e, o) ==
  /\ display[e].kind = "pills"
  /\ o \in display[e].items
  /\ SetWorld(SelectItem(Entered(World), display[e].by, o))
  /\ UNCHANGED focus
  /\ GestureFrame

\* the MutationObserver of setupSearch: style or class of the content of e
\* changed, and the content is displayed or not
ContentMutation(e, displayed) ==
  /\ \E i \in Slots : inst[i].elem = e /\ inst[i].complete /\ search[e].present
  /\ focus' = IF displayed THEN SearchFocus(e) ELSE focus
  /\ SetWorld(Entered(World))
  /\ GestureFrame

\* ------------------------------------------------------------ stepper
Steps == 1..NumSteps

\* ---- JavaScript numbers and strings
\* a number is <<n>> or NaN; a string is a sequence of characters
NaN == <<>>
Num(n) == <<n>>
Lt(a, b) == a # NaN /\ b # NaN /\ a[1] < b[1]
Gt(a, b) == Lt(b, a)
StrictEq(a, b) == a # NaN /\ b # NaN /\ a[1] = b[1]
Truthy(a) == a # NaN /\ a[1] # 0

DigitChars == <<"0", "1", "2", "3", "4", "5", "6", "7", "8", "9">>
IsDigit(c) == \E k \in 1..10 : DigitChars[k] = c
DigitValue(c) == (CHOOSE k \in 1..10 : DigitChars[k] = c) - 1

RECURSIVE DigitPrefix(_)
\* the longest run of digits a string starts with
DigitPrefix(str) ==
  IF str # <<>> /\ IsDigit(Head(str)) THEN <<Head(str)>> \o DigitPrefix(Tail(str)) ELSE <<>>

RECURSIVE DigitsValue(_)
DigitsValue(ds) ==
  IF ds = <<>> THEN 0
  ELSE 10 * DigitsValue(SubSeq(ds, 1, Len(ds) - 1)) + DigitValue(ds[Len(ds)])

\* parseInt(string): leading white space, a sign, then the digits up to the
\* first character that is none; NaN when there is no digit
ParseInt(str) ==
  LET s1 == TrimStart(str)
      signed == s1 # <<>> /\ Head(s1) \in {"-", "+"}
      s2 == IF signed THEN Tail(s1) ELSE s1
      ds == DigitPrefix(s2)
  IN IF ds = <<>> THEN NaN
     ELSE IF signed /\ Head(s1) = "-" THEN Num(0 - DigitsValue(ds))
     ELSE Num(DigitsValue(ds))

RECURSIVE DigitsOf(_)
DigitsOf(n) ==
  IF n < 10 THEN <<DigitChars[n + 1]>>
  ELSE DigitsOf(n \div 10) \o <<DigitChars[(n % 10) + 1]>>

\* Number.prototype.toString / String(number) of an integer or NaN
NumberToString(a) ==
  IF a = NaN THEN <<"N", "a", "N">>
  ELSE IF a[1] < 0 THEN <<"-">> \o DigitsOf(0 - a[1])
  ELSE DigitsOf(a[1])

\* parseInt(container.dataset.currentStep) || 1; <<>> is the attribute absent
\* or empty, parseInt gives NaN for both
ParseCurrentStep(attr) ==
  LET parsed == ParseInt(attr)
  IN IF Truthy(parsed) THEN parsed ELSE Num(1)

\* parseInt(step.dataset.stepNumber) of the n-th step or panel
StepNumber(n) == ParseInt(NumberToString(Num(n)))

\* the status never takes the step number into account
StepStatusFlat(stepNumber, currentStep) ==
  IF StrictEq(stepNumber, currentStep) THEN "active" ELSE "incomplete"

\* status of a step, lines 28-35 of updateStepStates
StepStatus(stepNumber, currentStep) ==
  IF Lt(stepNumber, currentStep) THEN "completed"
  ELSE IF StrictEq(stepNumber, currentStep) THEN "active"
  ELSE "incomplete"

\* the stepper part of the state as one record the functions transform
StepperWorld == [st |-> stepper, events |-> events]

\* updateStepStates() of the controller of container s
UpdateStepStates(sw, s) ==
  LET currentStep == sw.st[s].currentStep
      sw1 == [sw EXCEPT !.st[s].status = [n \in Steps |-> StepStatus(StepNumber(n), currentStep)],
                        !.st[s].shown = {n \in Steps : StrictEq(StepNumber(n), currentStep)},
                        !.st[s].attr = NumberToString(currentStep)]
  IN Dispatch(sw1, Ev("stepper:change", s, 0, Scalar(currentStep), <<>>, 0))

\* goToStep without its range check
GoToStepUnchecked(sw, s, arg) ==
  UpdateStepStates([sw EXCEPT !.st[s].currentStep = ParseInt(arg)], s)

\* goToStep(stepNumber) of the controller of s; the argument as String() gives it
GoToStep(sw, s, arg) ==
  LET stepNumber == ParseInt(arg)
  IN IF Lt(stepNumber, Num(1)) \/ Gt(stepNumber, Num(NumSteps)) THEN sw
     ELSE UpdateStepStates([sw EXCEPT !.st[s].currentStep = stepNumber], s)

\* currentStep + 1 and currentStep - 1
Plus(a, k) == IF a = NaN THEN NaN ELSE Num(a[1] + k)

\* nextStep()
NextStep(sw, s) ==
  IF Lt(sw.st[s].currentStep, Num(NumSteps))
    THEN GoToStep(sw, s, NumberToString(Plus(sw.st[s].currentStep, 1)))
    ELSE sw

\* prevStep()
PrevStep(sw, s) ==
  IF Gt(sw.st[s].currentStep, Num(1))
    THEN GoToStep(sw, s, NumberToString(Plus(sw.st[s].currentStep, -1)))
    ELSE sw

\* initStepper(container) without the data-initialized guard of its first line
InitStepperUnguarded(sw, s) ==
  LET sw1 == [sw EXCEPT !.st[s].marked = TRUE]
  IN IF ~sw.st[s].hasId THEN sw1
     ELSE UpdateStepStates(
            [sw1 EXCEPT !.st[s].currentStep = ParseCurrentStep(sw.st[s].attr),
                        !.st[s].ctl = @ + 1], s)

\* initStepper(container): ctl counts the controllers whose listeners are attached
InitStepper(sw, s) ==
  IF sw.st[s].marked THEN sw
  ELSE LET sw1 == [sw EXCEPT !.st[s].marked = TRUE]
       IN IF ~sw.st[s].hasId THEN sw1
          ELSE UpdateStepStates(
                 [sw1 EXCEPT !.st[s].currentStep = ParseCurrentStep(sw.st[s].attr),
                             !.st[s].ctl = @ + 1], s)

RECURSIVE InitSteppers(_, _)
\* the loop of init(root) over the containers it found
InitSteppers(sw, ss) ==
  IF ss = <<>> THEN sw ELSE InitSteppers(InitStepper(sw, Head(ss)), Tail(ss))

\* templUI.stepper.init(root): root 0 is the document, otherwise a container
StepperInit(root) ==
  /\ LET found == IF root = 0
                    THEN SetToSeq({s \in Steppers : stepper[s].present /\ ~stepper[s].marked})
                    ELSE IF stepper[root].present THEN <<root>> ELSE <<>>
         sw == InitSteppers([StepperWorld EXCEPT !.events = <<>>], found)
     IN stepper' = sw.st /\ events' = sw.events
  /\ error' = "none"
  /\ Track("stepper", root)
  /\ UNCHANGED <<markup, modal, hostListens, popover, search, focus, marked, attrSel, hidden, display,
                 instances, inst, stack, picker>>

\* what a stepper action leaves alone
StepperFrame ==
  UNCHANGED <<markup, modal, hostListens, popover, search, focus, marked, attrSel, hidden, display,
              instances, inst, stack, picker>>

\* an operation on the steppers: what it dispatched replaces the last call's
StepperCall(sw) ==
  /\ stepper' = sw.st
  /\ events' = sw.events
  /\ error' = "none"
  /\ lastInit' = NoInit
  /\ StepperFrame

StepperEntered == [StepperWorld EXCEPT !.events = <<>>]

\* a click on the [data-step-trigger] of step n
TriggerClick(s, n) ==
  /\ stepper[s].ctl > 0
  /\ StepperCall(GoToStep(StepperEntered, s, NumberToString(StepNumber(n))))

Keys == {"ArrowRight", "ArrowDown", "ArrowLeft", "ArrowUp", "Home", "End", "Enter"}

\* the container's keydown listener, the target being a step trigger
OnKeyDown(sw, s, key) ==
  IF key \in {"ArrowRight", "ArrowDown"} THEN NextStep(sw, s)
  ELSE IF key \in {"ArrowLeft", "ArrowUp"} THEN PrevStep(sw, s)
  ELSE IF key = "Home" THEN GoToStep(sw, s, NumberToString(Num(1)))
  ELSE IF key = "End" THEN GoToStep(sw, s, NumberToString(Num(NumSteps)))
  ELSE sw

KeyDown(s, key) ==
  /\ stepper[s].ctl > 0
  /\ StepperCall(OnKeyDown(StepperEntered, s, key))

\* container.dispatchEvent(new CustomEvent("stepper:navigate", {detail: {step}})):
\* the controller's listener, if one is attached, calls goToStep(e.detail.step)
DispatchNavigate(sw, s, step) ==
  LET sw1 == Dispatch(sw, Ev("stepper:navigate", s, 0, Scalar(step), <<>>, 0))
  IN IF sw.st[s].ctl > 0 THEN GoToStep(sw1, s, step) ELSE sw1

\* step payloads as String() gives them: 0..N+1, a word, a fraction
Payloads ==
  {NumberToString(Num(n)) : n \in 0..(NumSteps + 1)} \cup {<<"a">>, <<"1", ".", "5">>}

\* the page dispatches stepper:navigate on a container
Navigate(s, step) ==
  /\ stepper[s].present
  /\ StepperCall(DispatchNavigate(StepperEntered, s, step))

\* document click listener, [data-stepper-next] branch, the button referring
\* to container s by id or by ancestry
ClickNext(sw, s) ==
  IF ~sw.st[s].marked THEN sw
  ELSE LET currentStep == ParseCurrentStep(sw.st[s].attr)
           length == Num(NumSteps + sw.st[s].foreign)
       IN IF Lt(currentStep, length)
            THEN DispatchNavigate(sw, s, NumberToString(Plus(currentStep, 1)))
            ELSE sw

\* [data-stepper-prev] branch
ClickPrev(sw, s) ==
  IF ~sw.st[s].marked THEN sw
  ELSE LET currentStep == ParseCurrentStep(sw.st[s].attr)
       IN IF Gt(currentStep, Num(1))
            THEN DispatchNavigate(sw, s, NumberToString(Plus(currentStep, -1)))
            ELSE sw

\* [data-stepper-goto] branch, target being the button's data-stepper-goto-step
ClickGoto(sw, s, target) ==
  LET targetStep == ParseInt(target)
      length == Num(NumSteps + sw.st[s].foreign)
  IN IF ~(sw.st[s].marked /\ Truthy(targetStep)) THEN sw
     ELSE IF ~Lt(targetStep, Num(1)) /\ ~Gt(targetStep, length)
       THEN DispatchNavigate(sw, s, NumberToString(targetStep))
       ELSE sw

ExternalNext(s) == stepper[s].present /\ StepperCall(ClickNext(StepperEntered, s))
ExternalPrev(s) == stepper[s].present /\ StepperCall(ClickPrev(StepperEntered, s))
ExternalGoto(s, target) ==
  stepper[s].present /\ StepperCall(ClickGoto(StepperEntered, s, target))

\* -------------------------------------------------------- date picker
\* ---- Date: an instant is <<t>>, t the seconds since 1970-01-01T00:00:00Z,
\* and NoDate is null
NoDate == <<>>
DaySeconds == 86400

\* days from 1970-01-01 to the proleptic Gregorian date y-m-d, m in 1..12
DaysFromCivil(y, m, d) ==
  LET yy == IF m <= 2 THEN y - 1 ELSE y
      era == yy \div 400
      yoe == yy - era * 400
      mp == IF m > 2 THEN m - 3 ELSE m + 9
      doy == (153 * mp + 2) \div 5 + d - 1
      doe == yoe * 365 + yoe \div 4 - yoe \div 100 + doy
  IN era * 146097 + doe - 719468

\* the Gregorian date of a day number
CivilFromDays(z) ==
  LET zz == z + 719468
      era == zz \div 146097
      doe == zz - era * 146097
      yoe == (doe - doe \div 1460 + doe \div 36524 - doe \div 146096) \div 365
      doy == doe - (365 * yoe + yoe \div 4 - yoe \div 100)
      mp == (5 * doy + 2) \div 153
      d == doy - (153 * mp + 2) \div 5 + 1
      m == IF mp < 10 THEN mp + 3 ELSE mp - 9
  IN [year |-> yoe + era * 400 + (IF m <= 2 THEN 1 ELSE 0), month |-> m, day |-> d]

\* Date.UTC(year, month, day, hour, minute, second), month counted from 0:
\* years 0..99 mean 1900..1999, fields out of range carry over
DateUTC(year, month, day, hour, minute, second) ==
  LET full == IF year \in 0..99 THEN 1900 + year ELSE year
      y == full + month \div 12
      m == month % 12
  IN DaysFromCivil(y, m + 1, 1) * DaySeconds + (day - 1) * DaySeconds
       + hour * 3600 + minute * 60 + second

GetUTCFullYear(t) == CivilFromDays(t \div DaySeconds).year
GetUTCMonth(t) == CivilFromDays(t \div DaySeconds).month - 1
GetUTCDate(t) == CivilFromDays(t \div DaySeconds).day

\* Date.prototype.setUTCHours(hour, minute, second)
SetUTCHours(t, hour, minute, second) ==
  (t \div DaySeconds) * DaySeconds + hour * 3600 + minute * 60 + second

\* \d{n} at positions from..from+n-1 of a string
DigitsAt(str, from, n) ==
  Len(str) >= from + n - 1 /\ \A k \in from..(from + n - 1) : IsDigit(str[k])

CharAt(str, k, cs) == Len(str) >= k /\ str[k] \in cs

\* (\d{4})-(\d{2})-(\d{2}) at the start of a string
DateShaped(str) ==
  /\ DigitsAt(str, 1, 4) /\ CharAt(str, 5, {"-"})
  /\ DigitsAt(str, 6, 2) /\ CharAt(str, 8, {"-"})
  /\ DigitsAt(str, 9, 2)

\* the instant of the fields whatever it reads back
Unreconstructed(year, month, day, hour, minute, second) ==
  <<DateUTC(year, month, day, hour, minute, second)>>

\* the instant of the fields, or null when the instant reads back another
\* year, month or day
Reconstructed(year, month, day, hour, minute, second) ==
  LET date == DateUTC(year, month, day, hour, minute, second)
  IN IF /\ GetUTCFullYear(date) = year
        /\ GetUTCMonth(date) = month
        /\ GetUTCDate(date) = day
       THEN <<date>>
       ELSE NoDate

\* parseISODate(isoString)
ParseISODate(isoString) ==
  IF isoString = <<>> THEN NoDate
  ELSE IF ~(DateShaped(isoString) /\ Len(isoString) = 10) THEN NoDate
  ELSE Reconstructed(ParseInt(SubSeq(isoString, 1, 4))[1],
                     ParseInt(SubSeq(isoString, 6, 7))[1] - 1,
                     ParseInt(SubSeq(isoString, 9, 10))[1], 0, 0, 0)

\* parseISODateTime(isoString): the pattern is open at the end, the time and
\* its seconds are optional groups
ParseISODateTime(isoString) ==
  IF isoString = <<>> THEN NoDate
  ELSE IF ~DateShaped(isoString) THEN NoDate
  ELSE LET timed == /\ CharAt(isoString, 11, {"T", " "})
                    /\ DigitsAt(isoString, 12, 2) /\ CharAt(isoString, 14, {":"})
                    /\ DigitsAt(isoString, 15, 2)
           seconds == timed /\ CharAt(isoString, 17, {":"}) /\ DigitsAt(isoString, 18, 2)
           hour == IF timed THEN ParseInt(SubSeq(isoString, 12, 13))[1] ELSE 0
           minute == IF timed THEN ParseInt(SubSeq(isoString, 15, 16))[1] ELSE 0
           second == IF seconds THEN ParseInt(SubSeq(isoString, 18, 19))[1] ELSE 0
       IN Reconstructed(ParseInt(SubSeq(isoString, 1, 4))[1],
                        ParseInt(SubSeq(isoString, 6, 7))[1] - 1,
                        ParseInt(SubSeq(isoString, 9, 10))[1], hour, minute, second)

RECURSIVE PadStart(_, _)
\* String.prototype.padStart(width, "0")
PadStart(str, width) == IF Len(str) >= width THEN str ELSE PadStart(<<"0">> \o str, width)

\* a hidden input value as the server writes it: YYYY-MM-DD and what follows
IsoString(y, m, d, rest) ==
  PadStart(NumberToString(Num(y)), 4) \o <<"-">> \o PadStart(NumberToString(Num(m)), 2)
    \o <<"-">> \o PadStart(NumberToString(Num(d)), 2) \o rest

\* what a display element shows: the text the server rendered, the
\* placeholder, the locale's rendering of an instant in a style with or
\* without the time, or literal characters
ServerText == [kind |-> "rendered", style |-> "", timed |-> FALSE, t |-> 0, text |-> <<>>]
PlaceholderText ==
  [kind |-> "placeholder", style |-> "", timed |-> FALSE, t |-> 0, text |-> <<>>]
Localized(style, timed, t) ==
  [kind |-> "intl", style |-> style, timed |-> timed, t |-> t, text |-> <<>>]
Literal(chars) == [kind |-> "text", style |-> "", timed |-> FALSE, t |-> 0, text |-> chars]

\* the year-month-day of an instant as YYYY-MM-DD
YearMonthDay(t) ==
  NumberToString(Num(GetUTCFullYear(t))) \o <<"-">>
    \o PadStart(NumberToString(Num(GetUTCMonth(t) + 1)), 2) \o <<"-">>
    \o PadStart(NumberToString(Num(GetUTCDate(t))), 2)

\* Date.prototype.toISOString() of an instant of the years 0..9999
ToISOString(t) ==
  LET rest == t % DaySeconds
  IN PadStart(NumberToString(Num(GetUTCFullYear(t))), 4) \o <<"-">>
       \o PadStart(NumberToString(Num(GetUTCMonth(t) + 1)), 2) \o <<"-">>
       \o PadStart(NumberToString(Num(GetUTCDate(t))), 2) \o <<"T">>
       \o PadStart(NumberToString(Num(rest \div 3600)), 2) \o <<":">>
       \o PadStart(NumberToString(Num((rest % 3600) \div 60)), 2) \o <<":">>
       \o PadStart(NumberToString(Num(rest % 60)), 2) \o <<".", "0", "0", "0", "Z">>

\* the dateStyle the switch over the display format picks
DateStyle(format) ==
  IF format = "locale-short" THEN "short"
  ELSE IF format = "locale-long" THEN "long"
  ELSE IF format = "locale-full" THEN "full"
  ELSE "medium"

\* new Intl.DateTimeFormat(localeTag, options) throws: a RangeError for a
\* locale tag that is not well formed, a TypeError when dateStyle comes
\* together with hour or minute
IntlThrows(localeOk, timed) == ~localeOk \/ timed

\* formatDateTimeWithIntl(date, format, localeTag, withTime, withSeconds, with24Hours)
FormatDateTimeWithIntl(date, format, localeOk, withTime) ==
  IF date = NoDate THEN Literal(<<>>)
  ELSE IF ~IntlThrows(localeOk, withTime)
    THEN Localized(DateStyle(format), withTime, date[1])
  ELSE Literal(ToISOString(date[1]))

\* updateDisplay() of initDatePicker
PickerDisplay(p) ==
  IF p.value = <<>> THEN PlaceholderText
  ELSE LET initialDate == ParseISODateTime(p.value)
       IN IF initialDate # NoDate
            THEN FormatDateTimeWithIntl(initialDate, p.format, p.localeOk, p.withTime)
            ELSE PlaceholderText

\* initDatePicker(triggerButton): ctl counts the calendar listeners attached
InitDatePicker(pk, d) ==
  IF pk[d].marked THEN pk
  ELSE LET pk1 == [pk EXCEPT ![d].marked = TRUE]
       IN IF pk[d].missing # "none" THEN pk1
          ELSE [pk1 EXCEPT ![d].ctl = @ + 1, ![d].display = PickerDisplay(pk[d])]

RECURSIVE InitDatePickers(_, _)
\* the forEach of init(root) over the trigger buttons it found
InitDatePickers(pk, ds) ==
  IF ds = <<>> THEN pk ELSE InitDatePickers(InitDatePicker(pk, Head(ds)), Tail(ds))

\* templUI.datePicker.init(root): root 0 is the document, otherwise a button
PickerInit(root) ==
  /\ LET found == IF root = 0
                    THEN SetToSeq({d \in Pickers : picker[d].present /\ ~picker[d].marked})
                    ELSE IF picker[root].present THEN <<root>> ELSE <<>>
     IN picker' = InitDatePickers(picker, found)
  /\ events' = <<>>
  /\ error' = "none"
  /\ Track("datepicker", root)
  /\ UNCHANGED <<markup, modal, hostListens, popover, search, focus, marked, attrSel, hidden, display,
                 instances, inst, stack, stepper>>

\* what a date picker action leaves alone
PickerFrame ==
  UNCHANGED <<markup, modal, hostListens, popover, search, focus, marked, attrSel, hidden, display,
              instances, inst, stack, stepper>>

\* a call of parseISODate and of parseISODateTime on the hidden input's value
ParseValue(d) ==
  /\ picker[d].present
  /\ picker' = [picker EXCEPT ![d].parsed =
                  [called |-> TRUE, date |-> ParseISODate(picker[d].value),
                   dateTime |-> ParseISODateTime(picker[d].value)]]
  /\ events' = <<>>
  /\ error' = "none"
  /\ lastInit' = NoInit
  /\ PickerFrame

\* values of the hour input next to a picker with time
Hours == {0, 13}

\* onCalendarSelect: the calendar dispatched calendar-date-selected with a
\* Date; the minute and second inputs hold 0 and the 24 hour clock is on
OnCalendarSelect(p, date, hour) ==
  LET selectedDate == IF p.withTime THEN <<SetUTCHours(date[1], hour, 0, 0)>> ELSE date
  IN [p EXCEPT !.display =
        FormatDateTimeWithIntl(selectedDate, p.format, p.localeOk, p.withTime)]

CalendarSelect(d, date, hour) ==
  /\ picker[d].ctl > 0
  /\ picker' = [picker EXCEPT ![d] = OnCalendarSelect(picker[d], date, hour)]
  /\ events' = <<>>
  /\ error' = "none"
  /\ lastInit' = NoInit
  /\ PickerFrame

\* ------------------------------------------------------------- modal
Modals == 1..NumModals

\* a <dialog> as rendered: closed, without animation class; timers holds, for
\* each pending close timer in the order they are due, whether openModal ran
\* on the dialog after the closeModal that started the timer
NewModal(present, disableEsc) ==
  [present |-> present, disableEsc |-> disableEsc, open |-> FALSE,
   opening |-> FALSE, closing |-> FALSE, timers |-> <<>>]

NoModals == [m \in Modals |-> NewModal(FALSE, FALSE)]

\* what a modal action leaves alone
ModalFrame ==
  UNCHANGED <<markup, hostListens, popover, search, focus, marked, attrSel, hidden, display,
              instances, inst, stack, events, lastInit, stepper, picker>>

\* openModal(modalId). showModal() on a dialog that is open: the current
\* HTML standard returns, engines of the older standard throw
\* InvalidStateError before the classes are touched
OpenModal(m, legacy) ==
  /\ IF ~modal[m].present THEN UNCHANGED modal /\ error' = "none"
     ELSE IF modal[m].open /\ legacy THEN UNCHANGED modal /\ error' = "InvalidStateError"
     ELSE /\ modal' = [modal EXCEPT ![m].open = TRUE, ![m].closing = FALSE,
                                     ![m].opening = TRUE,
                                     ![m].timers = [k \in DOMAIN @ |-> TRUE]]
          /\ error' = "none"
  /\ ModalFrame

\* closeModal(modalId) on the dialogs md
CloseModal(md, m) ==
  IF md[m].present /\ md[m].open
    THEN [md EXCEPT ![m].opening = FALSE, ![m].closing = TRUE,
                    ![m].timers = Append(@, FALSE)]
    ELSE md

\* a close button, a backdrop click or a host call of window.closeModal
CloseModalCall(m) ==
  /\ Len(modal[m].timers) < MaxPending
  /\ modal' = CloseModal(modal, m)
  /\ error' = "none"
  /\ ModalFrame

\* handleKeyDown with Escape: the last open dialog in document order
EscapeKey ==
  LET openModals == {m \in Modals : modal[m].present /\ modal[m].open}
  IN /\ openModals # {}
     /\ LET lastModal == CHOOSE m \in openModals : \A o \in openModals : o <= m
        IN /\ Len(modal[lastModal].timers) < MaxPending
           /\ modal' = IF modal[lastModal].disableEsc THEN modal
                       ELSE CloseModal(modal, lastModal)
     /\ error' = "none"
     /\ ModalFrame

\* the 300 ms timer of closeModal: modal.close(), then the class is removed
CloseTimer(m) ==
  /\ modal[m].timers # <<>>
  /\ modal' = [modal EXCEPT ![m].open = FALSE, ![m].closing = FALSE,
                            ![m].timers = Tail(@)]
  /\ error' = "none"
  /\ ModalFrame

\* ----------------------------------------------------- specifications
\* complete controls whose options all have a .select-item-text and a value
\* of letters and digits, without pills, rendered with an empty hidden input
OkMarkups ==
  [present : {TRUE}, hasTrigger : {TRUE}, hasParts : {TRUE}, multiple : BOOLEAN,
   showPills : {FALSE}, premarked : SUBSET Options, textless : {{}},
   quoted : {{}}, hiddenInit : {<<>>}, disabled : {{}}]
Deficient(hasTrigger, hasParts) ==
  [present |-> TRUE, hasTrigger |-> hasTrigger, hasParts |-> hasParts,
   multiple |-> FALSE, showPills |-> FALSE, premarked |-> {}, textless |-> {},
   quoted |-> {}, hiddenInit |-> <<>>, disabled |-> {}]
SbMarkups == OkMarkups \cup {Deficient(FALSE, TRUE), Deficient(TRUE, FALSE)}
PlainMarkups == {m \in SbMarkups : ~m.multiple /\ m.premarked = {}}
SbAbsent ==
  [present |-> FALSE, hasTrigger |-> FALSE, hasParts |-> FALSE, multiple |-> FALSE,
   showPills |-> FALSE, premarked |-> {}, textless |-> {}, quoted |-> {},
   hiddenInit |-> <<>>, disabled |-> {}]

\* a [data-stepper] container as rendered: foreign counts the [data-step]
\* elements inside it that carry another stepper's id (a nested stepper's
\* steps); every panel is displayed until a controller hides it
NewStepper(present, hasId, attr, foreign) ==
  [present |-> present, hasId |-> hasId, attr |-> attr, foreign |-> foreign,
   marked |-> FALSE, ctl |-> 0, currentStep |-> Num(0),
   status |-> [n \in Steps |-> "none"], shown |-> Steps]

\* a date picker trigger as rendered: value is the hidden input's, format,
\* localeOk and withTime come from data-display-format, data-locale-tag
\* (well formed or not) and data-with-time; parsed holds what the last call
\* of the two parsers on the value returned
NewPicker(present, missing, value, format, localeOk, withTime) ==
  [present |-> present, missing |-> missing, value |-> value, format |-> format,
   localeOk |-> localeOk, withTime |-> withTime, marked |-> FALSE, ctl |-> 0,
   display |-> ServerText,
   parsed |-> [called |-> FALSE, date |-> NoDate, dateTime |-> NoDate]]

NoSteppers == [s \in Steppers |-> NewStepper(FALSE, FALSE, <<>>, 0)]
NoPickers == [d \in Pickers |-> NewPicker(FALSE, "none", <<>>, "locale-medium", TRUE, FALSE)]

\* the selection controls as delivered: nothing initialized, every option as
\* the renderer marked it
Delivered(ms, listens, fields) ==
  /\ search = fields
  /\ markup = ms
  /\ hostListens = listens
  /\ marked = [e \in Elems |-> FALSE]
  /\ attrSel = [e \in Elems |-> ms[e].premarked]
  /\ hidden = [e \in Elems |-> ms[e].hiddenInit]
  /\ display = [e \in Elems |-> Placeholder]
  /\ focus = NoFocus
  /\ instances = [e \in Elems |-> 0]
  /\ inst = [i \in Slots |-> FreeSlot]
  /\ stack = <<>>
  /\ events = <<>>
  /\ error = "none"
  /\ lastInit = NoInit

\* the page as delivered when it has no dialog
Rendered(ms, listens, fields) == Delivered(ms, listens, fields) /\ modal = NoModals

\* the page when no control has a search field
Page(ms, listens) == Rendered(ms, listens, [e \in Elems |-> NoSearch])

\* a page with one selection control and no lifecycle listeners
Init ==
  /\ \E m \in SbMarkups : Page([e \in Elems |-> IF e = 1 THEN m ELSE SbAbsent], FALSE)
  /\ popover = FALSE
  /\ stepper = NoSteppers
  /\ picker = NoPickers

Next ==
  \/ \E sel \in {0} \cup Elems : SbInitPlain(sel)
  \/ \E e \in Elems : SbDestroy(e)
  \/ SbDestroyAll
  \/ \E i \in Slots : InstDestroy(i)
  \/ \E i \in Slots : Collect(i)
  \/ \E i \in Slots, value \in JSArgs : SetValueCall(i, value)
  \/ \E i \in Slots, item \in Options : SelectItemCall(i, item)
  \/ \E i \in Slots : ResetCall(i)
  \/ \E i \in Slots : SettleTimer(i)

Spec == Init /\ [][Next]_vars

\* the same page while its one control is in use and never destroyed
NextUse ==
  \/ \E sel \in {0} \cup Elems : SbInitPlain(sel)
  \/ \E i \in Slots, value \in JSArgs : SetValueCall(i, value)
  \/ \E i \in Slots, item \in Options : SelectItemCall(i, item)
  \/ \E i \in Slots : ResetCall(i)
  \/ \E i \in Slots : SettleTimer(i)

SpecUse == Init /\ [][NextUse]_vars

\* complete controls as a host can render them: with or without pills, with
\* an option that has no .select-item-text, with an option whose value has a
\* double quote in it, with a hidden input rendered empty or holding a value
WideMarkups ==
  {m \in [present : {TRUE}, hasTrigger : {TRUE}, hasParts : {TRUE}, multiple : BOOLEAN,
          showPills : BOOLEAN, premarked : SUBSET Options, textless : {{}, {1}},
          quoted : {{}, {NumOptions}}, hiddenInit : {<<>>, <<1>>},
          disabled : {{}}] :
     m.showPills => m.multiple}

\* arguments of setValue with the value that has a double quote in it
QuoteArgs == {Scalar(Quote), Arr(<<1, Quote>>), Arr(<<Quote, 1>>)}

\* a page with one selection control of any rendering, with or without the
\* popover script
InitSelect ==
  /\ \E m \in WideMarkups : Page([e \in Elems |-> IF e = 1 THEN m ELSE SbAbsent], FALSE)
  /\ popover \in BOOLEAN
  /\ stepper = NoSteppers
  /\ picker = NoPickers

\* renderings of a control that has a search field
SearchMarkups == {m \in WideMarkups : ~m.showPills /\ m.hiddenInit = <<>>}

\* a page with one selection control whose content has a search field
InitSearch ==
  /\ \E m \in SearchMarkups :
       Rendered([e \in Elems |-> IF e = 1 THEN m ELSE SbAbsent], FALSE,
                [e \in Elems |-> IF e = 1 THEN EmptySearch ELSE NoSearch])
  /\ popover = FALSE
  /\ stepper = NoSteppers
  /\ picker = NoPickers

\* the control in use while the user types into the search field
NextSearch ==
  \/ \E sel \in {0} \cup Elems : SbInitPlain(sel)
  \/ \E e \in Elems, value \in Terms : SearchInput(e, value)
  \/ \E i \in Slots, item \in Options : SelectItemCall(i, item)
  \/ \E i \in Slots : ResetCall(i)
  \/ \E i \in Slots : SettleTimer(i)

SpecSearch == InitSearch /\ [][NextSearch]_vars

\* values of data-current-step as rendered: absent, 0..N+1, a negative
\* number, a word
AttrValues ==
  {<<>>, <<"-", "1">>, <<"a">>} \cup {NumberToString(Num(n)) : n \in 0..(NumSteps + 1)}

\* values of data-stepper-goto-step on external goto buttons
GotoTargets == {NumberToString(Num(n)) : n \in 0..(NumSteps + 2)} \cup {<<"a">>}

\* a page with steppers: the first of any rendering, the others plain
InitStepperPage ==
  /\ Page([e \in Elems |-> SbAbsent], FALSE)
  /\ popover = FALSE
  /\ picker = NoPickers
  /\ \E hasId \in BOOLEAN, attr \in AttrValues, foreign \in {0, 1} :
       stepper = [s \in Steppers |-> IF s = 1 THEN NewStepper(TRUE, hasId, attr, foreign)
                                               ELSE NewStepper(TRUE, TRUE, <<>>, 0)]

\* initialization and every way of navigating
NextStepper ==
  \/ \E root \in {0} \cup Steppers : StepperInit(root)
  \/ \E s \in Steppers, n \in Steps : TriggerClick(s, n)
  \/ \E s \in Steppers, key \in Keys : KeyDown(s, key)
  \/ \E s \in Steppers, step \in Payloads : Navigate(s, step)
  \/ \E s \in Steppers : ExternalNext(s)
  \/ \E s \in Steppers : ExternalPrev(s)
  \/ \E s \in Steppers, target \in GotoTargets : ExternalGoto(s, target)

SpecStepper == InitStepperPage /\ [][NextStepper]_vars

\* hidden input values: year, month and day fields in and out of the
\* calendar, alone or followed by a time or by other text, and strings of
\* another shape
DateInputs ==
  {IsoString(y, m, d, rest) :
     y \in {99, 2023, 2024}, m \in {0, 1, 2, 4, 12, 13}, d \in {0, 1, 28, 29, 30, 31, 32},
     rest \in {<<>>, <<"T", "2", "3", ":", "5", "9", ":", "5", "9">>,
               <<"T", "2", "4", ":", "0", "0">>, <<"T", "1", "0", ":", "9", "9">>,
               <<"x">>}}
    \cup {<<>>, <<"2", "0", "2", "3", "-", "2", "-", "2", "8">>}

\* dates the calendar hands over on selection
PickDates == {<<DateUTC(2024, 1, 29, 0, 0, 0)>>, <<DateUTC(2023, 11, 31, 0, 0, 0)>>}

\* the values among them that every configuration is tried with
FewInputs == {<<>>, IsoString(2024, 2, 29, <<>>), IsoString(2023, 2, 30, <<>>)}

\* a page with one complete date picker: any value under the default
\* configuration, or a few values under any configuration
InitDates ==
  /\ Page([e \in Elems |-> SbAbsent], FALSE)
  /\ popover = FALSE
  /\ stepper = NoSteppers
  /\ \E v \in DateInputs, format \in {"locale-medium", "locale-long"},
        localeOk \in BOOLEAN, withTime \in BOOLEAN :
       /\ v \in FewInputs \/ (format = "locale-medium" /\ localeOk /\ ~withTime)
       /\ picker = [d \in Pickers |-> IF d = 1
                      THEN NewPicker(TRUE, "none", v, format, localeOk, withTime)
                      ELSE NewPicker(FALSE, "none", <<>>, "locale-medium", TRUE, FALSE)]

\* initialization, parsing and selection
NextDates ==
  \/ \E root \in {0} \cup Pickers : PickerInit(root)
  \/ \E d \in Pickers : ParseValue(d)
  \/ \E d \in Pickers, date \in PickDates, hour \in Hours : CalendarSelect(d, date, hour)

SpecDates == InitDates /\ [][NextDates]_vars

\* the control in use, with its timers
NextSelect ==
  \/ \E sel \in {0} \cup Elems : SbInitPlain(sel)
  \/ \E i \in Slots, value \in JSArgs \cup QuoteArgs : SetValueCall(i, value)
  \/ \E i \in Slots, item \in Options : SelectItemCall(i, item)
  \/ \E i \in Slots : ResetCall(i)
  \/ \E i \in Slots : SettleTimer(i)
  \/ \E i \in Slots : FocusTimer(i)
  \/ \E e \in Elems, overflows \in BOOLEAN : OverflowTimer(e, overflows)
  \/ Blur

SpecSelect == InitSelect /\ [][NextSelect]_vars

\* the event loop runs every timer that is due
TimersRun ==
  /\ \A i \in Slots : WF_vars(SettleTimer(i)) /\ WF_vars(FocusTimer(i))
  /\ \A e \in Elems : WF_vars(\E overflows \in BOOLEAN : OverflowTimer(e, overflows))

SpecSelectFair == SpecSelect /\ TimersRun

\* selections by the user, the timers they leave pending, and destruction
NextTimers ==
  \/ \E sel \in {0} \cup Elems : SbInitPlain(sel)
  \/ \E e \in Elems : SbDestroy(e)
  \/ \E i \in Slots, item \in Options : SelectItemCall(i, item)
  \/ \E i \in Slots : SettleTimer(i)
  \/ \E i \in Slots : FocusTimer(i)
  \/ \E e \in Elems, overflows \in BOOLEAN : OverflowTimer(e, overflows)
  \/ Blur

SpecTimers == InitSelect /\ [][NextTimers]_vars

\* pages of several components of one kind, nothing selected
InitLifecycle ==
  \/ /\ \E ms \in [Elems -> PlainMarkups] : Page(ms, TRUE)
     /\ popover = FALSE
     /\ stepper = NoSteppers
     /\ picker = NoPickers
  \/ /\ Page([e \in Elems |-> SbAbsent], FALSE)
     /\ popover = FALSE
     /\ stepper \in [Steppers -> {NewStepper(TRUE, h, <<>>, 0) : h \in BOOLEAN}]
     /\ picker = NoPickers
  \/ /\ Page([e \in Elems |-> SbAbsent], FALSE)
     /\ popover = FALSE
     /\ stepper = NoSteppers
     /\ picker \in [Pickers -> {NewPicker(TRUE, x, v, "locale-medium", TRUE, FALSE) :
                                  x \in {"none", "display", "calendar", "hidden"},
                                  v \in {<<>>, IsoString(2023, 2, 28, <<>>),
                                         IsoString(2023, 2, 30, <<>>)}}]

NextLifecycle ==
  \/ \E sel \in {0} \cup Elems : SbInit(sel)
  \/ ListenerReturn
  \/ \E e \in Elems : SbDestroy(e)
  \/ SbDestroyAll
  \/ \E i \in Slots : InstDestroy(i)
  \/ \E i \in Slots : Collect(i)
  \/ \E root \in {0} \cup Steppers : StepperInit(root)
  \/ \E root \in {0} \cup Pickers : PickerInit(root)

SpecLifecycle == InitLifecycle /\ [][NextLifecycle]_vars

\* a page of dialogs, closed as rendered, some with data-disable-esc
InitModal ==
  /\ Delivered([e \in Elems |-> SbAbsent], FALSE, [e \in Elems |-> NoSearch])
  /\ popover = FALSE
  /\ stepper = NoSteppers
  /\ picker = NoPickers
  /\ modal \in [Modals -> {NewModal(present, disableEsc) : present, disableEsc \in BOOLEAN}]

NextModal ==
  \/ \E m \in Modals, legacy \in BOOLEAN : OpenModal(m, legacy)
  \/ \E m \in Modals : CloseModalCall(m)
  \/ EscapeKey
  \/ \E m \in Modals : CloseTimer(m)

SpecModal == InitModal /\ [][NextModal]_vars

\* renderings of a control with a search field: single or multiple, with or
\* without a disabled option
KeyedMarkups ==
  [present : {TRUE}, hasTrigger : {TRUE}, hasParts : {TRUE}, multiple : BOOLEAN,
   showPills : {FALSE}, premarked : {{}}, textless : {{}},
   quoted : {{}}, hiddenInit : {<<>>}, disabled : {{}, {NumOptions}}]

\* a page with one selection control whose content has a search field
InitInput ==
  /\ \E m \in KeyedMarkups :
       Rendered([e \in Elems |-> IF e = 1 THEN m ELSE SbAbsent], FALSE,
                [e \in Elems |-> IF e = 1 THEN EmptySearch ELSE NoSearch])
  /\ popover = FALSE
  /\ stepper = NoSteppers
  /\ picker = NoPickers

\* what the user types
Typed == {<<>>, <<"a">>, <<" ">>}

\* the control in the hands of a user with a keyboard and a pointer
NextInput ==
  \/ SbInitPlain(0)
  \/ \E e \in Elems : UserFocus(TriggerFocus(e)) \/ UserFocus(SearchFocus(e))
  \/ \E e \in Elems, value \in Typed : UserTypes(e, value)
  \/ \E e \in Elems, down \in BOOLEAN : ArrowKey(e, down)
  \/ \E e \in Elems : EnterKey(e)
  \/ \E e \in Elems, o \in Options : ItemClick(e, o)
  \/ \E e \in Elems, key \in TriggerKeys : TriggerKey(e, key)
  \/ \E e \in Elems : SeedTimer(e)
  \/ \E i \in Slots : ResetCall(i)
  \/ \E i \in Slots : SettleTimer(i)

SpecInput == InitInput /\ [][NextInput]_vars

\* renderings of a control that is destroyed while in use: single, or
\* multiple with pills; with or without a selected option
UsedMarkups ==
  {m \in [present : {TRUE}, hasTrigger : {TRUE}, hasParts : {TRUE}, multiple : BOOLEAN,
          showPills : BOOLEAN, premarked : {{}, {1}}, textless : {{}},
          quoted : {{}}, hiddenInit : {<<>>}, disabled : {{}}] :
     m.showPills = m.multiple}

\* a page with two selection controls: the first with a search field, the
\* second complete, single and plain
InitTeardown ==
  /\ \E m \in UsedMarkups :
       Rendered([e \in Elems |-> IF e = 1 THEN m ELSE Deficient(TRUE, TRUE)], FALSE,
                [e \in Elems |-> IF e = 1 THEN EmptySearch ELSE NoSearch])
  /\ popover = FALSE
  /\ stepper = NoSteppers
  /\ picker = NoPickers

\* controls that are created, used, reset from outside and destroyed
NextTeardown ==
  \/ SbInitPlain(0)
  \/ \E e \in Elems : SbDestroy(e)
  \/ \E e \in Elems, o \in Options : ItemClick(e, o)
  \/ \E e \in Elems, down \in BOOLEAN : ArrowKey(e, down)
  \/ \E e \in Elems : EnterKey(e)
  \/ \E sel \in {0} \cup Elems : ResetClick(sel)
  \/ \E e \in Elems, o \in Options : PillRemove(e, o)
  \/ \E e \in Elems, displayed \in BOOLEAN : ContentMutation(e, displayed)
  \/ \E i \in Slots : SettleTimer(i)
  \/ \E e \in Elems, overflows \in BOOLEAN : OverflowTimer(e, overflows)

SpecTeardown == InitTeardown /\ [][NextTeardown]_vars

\* ------------------------------------------------------------- claims
Registered(i) == inst[i].elem # 0 /\ instances[inst[i].elem] = i
AttachedOn(e) == {i \in Slots : inst[i].elem = e /\ inst[i].attached}

\* C1: at every point where host code can run, an element has at most one
\* constructed SelectBox with listeners attached, also inside listeners of
\* selectbox:init that call templUI.selectbox.init on the same element.
C1_AtMostOneAttached == \A e \in Elems : Cardinality(AttachedOn(e)) <= 1

\* what two init calls in a row on one root leave behind: every element the
\* scan finds has its one controller
OnePerElement ==
  /\ lastInit.comp = "selectbox" =>
       \A k \in 1..Len(Resolve(lastInit.root)) :
         LET e == Resolve(lastInit.root)[k]
         IN instances[e] # 0 /\ inst[instances[e]].elem = e
  /\ lastInit.comp = "stepper" =>
       \A s \in Steppers :
         (stepper[s].present /\ lastInit.root \in {0, s}) =>
           stepper[s].marked /\ stepper[s].ctl = (IF stepper[s].hasId THEN 1 ELSE 0)
  /\ lastInit.comp = "datepicker" =>
       \A d \in Pickers :
         (picker[d].present /\ lastInit.root \in {0, d}) =>
           picker[d].marked /\ picker[d].ctl = (IF picker[d].missing = "none" THEN 1 ELSE 0)

DestroyEventsFor(evs, i) ==
  {k \in 1..Len(evs) : evs[k].type = "selectbox:destroy" /\ evs[k].inst = i}

\* C3: templUI.selectbox.destroy() without argument destroys every registered
\* instance: afterwards no element is registered or marked, one
\* selectbox:destroy was dispatched per instance, and no error was raised.
C3_DestroyAllDestroysAll ==
  [][(SbDestroyAll /\ \E i \in Slots : Registered(i)) =>
       /\ error' = "none"
       /\ \A e \in Elems : instances'[e] = 0 /\ ~marked'[e]
       /\ \A i \in Slots : Registered(i) => Cardinality(DestroyEventsFor(events', i)) = 1]_vars

SbDeficient(e) == markup[e].present /\ ~(markup[e].hasTrigger /\ markup[e].hasParts)

\* C4: an element that matches the discovery selector but lacks required
\* sub-elements is left without the initialized marker and without an
\* instance or listener, for the selection control and the date picker alike.
C4_DeficientStaysInert ==
  /\ \A e \in Elems : SbDeficient(e) => ~marked[e] /\ instances[e] = 0
  /\ \A d \in Pickers : picker[d].missing # "none" => ~picker[d].marked /\ picker[d].ctl = 0

Active(i) == inst[i].complete /\ inst[i].attached /\ marked[inst[i].elem]

\* C5: an element is in the registry if and only if its instance is active
\* (constructed successfully, marked, listeners attached), also while init
\* and destroy notifications are being delivered.
C5_RegistryIffActive ==
  \A i \in Slots : inst[i].elem # 0 => (Registered(i) <=> Active(i))

\* C7: destroying an instance that is already destroyed dispatches no second
\* selectbox:destroy and changes nothing.
C7_SecondDestroyIsNoOp ==
  [][\A i \in Slots :
       (inst[i].destroyed /\ InstDestroy(i)) =>
          /\ events' = <<>>
          /\ UNCHANGED <<marked, instances, inst, stack>>]_vars

TornDown(i) ==
  /\ ~inst[i].attached
  /\ inst[i].sel = <<>>
  /\ ~inst[i].isSelecting
  /\ ~marked[inst[i].elem]
  /\ instances[inst[i].elem] # i

\* C6: when selectbox:destroy is delivered the instance is fully torn down:
\* listeners detached, selectedValues and isSelecting cleared, marker removed,
\* registry entry evicted.
C6_DestroyedIsTornDown ==
  \A i \in Slots :
    (/\ inst[i].elem # 0
     /\ events # <<>>
     /\ events[Len(events)].type = "selectbox:destroy"
     /\ events[Len(events)].inst = i) => TornDown(i)

\* C8: destroy followed by init on the same element gives a new instance whose
\* selectedValues is the selection pre-marked in the original markup.
C8_ReconstructIsInitial ==
  [][\A e \in Elems :
       (/\ SbInitPlain(e)
        /\ instances[e] = 0
        /\ \E j \in Slots : inst[j].elem = e /\ inst[j].destroyed
        /\ instances'[e] # 0) =>
          Range(inst'[instances'[e]].sel) = markup[e].premarked]_vars

\* C9: in single-selection mode selectedValues never holds more than one value.
C9_SingleHoldsAtMostOne ==
  \A i \in Slots :
    (inst[i].elem # 0 /\ inst[i].complete /\ ~inst[i].multiple) => Len(inst[i].sel) <= 1

\* arguments of setValue whose values all match existing options
Matching == {a \in JSArgs : a.tag # "null" /\ Range(a.v) \subseteq Options}

\* what setValue(v); getValue() has to yield for v
YieldsBack(multiple, v, got) ==
  IF multiple THEN got.tag = "arr" /\ Range(got.v) = Range(v.v)
  ELSE Len(v.v) = 1 => got = Scalar(v.v[1])

\* C10: for a value, or a sequence of values, that all match existing options,
\* setValue(v) followed by getValue() yields v: the same set of values in multi
\* mode, exactly the value in single mode, whatever was selected before.
C10_SetThenGet ==
  [][\A i \in Slots : \A v \in Matching :
       (Live(i) /\ inst[i].complete /\ SetValueCall(i, v)) =>
          /\ error' = "none"
          /\ YieldsBack(inst[i].multiple, v, GetValue(inst'[i]))]_vars

EventsOf(evs, type) == {k \in 1..Len(evs) : evs[k].type = type}
LastIs(evs, type) == evs # <<>> /\ evs[Len(evs)].type = type
Empty(multiple) == IF multiple THEN Arr(<<>>) ELSE NullVal

\* C11: after reset() from any state of a constructed control getValue() is
\* empty (null in single mode, the empty sequence in multi mode), the hidden
\* field is the empty string, and exactly one selectbox:reset was dispatched,
\* whose previousValue is the selection held just before the call.
C11_ResetContract ==
  [][\A i \in Slots :
       (inst[i].complete /\ ResetCall(i)) =>
          /\ error' = "none"
          /\ GetValue(inst'[i]) = Empty(inst[i].multiple)
          /\ hidden'[inst[i].elem] = <<>>
          /\ Cardinality(EventsOf(events', "selectbox:reset")) = 1
          /\ \A k \in EventsOf(events', "selectbox:reset") :
               events'[k].prev = inst[i].sel /\ events'[k].inst = i]_vars

C11_Witness ==
  \E i \in Slots :
    /\ Live(i) /\ inst[i].complete /\ inst[i].sel = <<>>
    /\ LastIs(events, "selectbox:reset")
    /\ Len(events[Len(events)].prev) = 2

\* C12: in every state of an active selection control the hidden field holds
\* the members of selectedValues joined by ',', directly after construction
\* from any rendered field value and after any selectItem, setValue and reset.
C12_HiddenIsJoin ==
  \A i \in Slots :
    (Registered(i) /\ Active(i)) => hidden[inst[i].elem] = inst[i].sel

\* a step that is one call of selectItem, setValue or reset
UseCall ==
  \E i \in Slots :
    \/ ResetCall(i)
    \/ \E item \in Options : SelectItemCall(i, item)
    \/ \E value \in JSArgs : SetValueCall(i, value)

FieldChanges(evs, e) == {k \in EventsOf(evs, "change") : evs[k].el = e}

\* C13: selectItem, setValue and reset dispatch a change event on the hidden
\* field only when they leave the field's value different from what it was
\* before the call; reset() on an empty field dispatches none.
C13_FieldChangeOnlyOnDifference ==
  [][\A e \in Elems :
       (FieldChanges(events', e) # {} /\ UseCall) => hidden'[e] # hidden[e]]_vars

\* C14: selectItem called while isSelecting is set is a no-op whichever option
\* is passed: selectedValues, the options' data-selected attributes, the
\* summary and the hidden field are unchanged, no notification is dispatched
\* and no settle timer is scheduled.
C14_GuardedSelectIsNoOp ==
  [][\A i \in Slots : \A item \in Options :
       (inst[i].isSelecting /\ SelectItemCall(i, item)) =>
          /\ UNCHANGED <<inst, attrSel, display, hidden, marked, instances, focus>>
          /\ events' = <<>>
          /\ error' = "none"]_vars

C14_Witness ==
  \E i \in Slots :
    /\ lastInit.comp = "selectItem" /\ lastInit.root = i
    /\ Live(i) /\ inst[i].isSelecting /\ inst[i].settle = 1
    /\ inst[i].sel # <<>>
    /\ events = <<>>
    /\ error = "none"

\* C15: after a selectItem call that passed the guard isSelecting returns to
\* false once the timers have run, on every path through selectItem: the
\* control never stays unable to accept selections.
C15_SelectingSettles ==
  \A i \in Slots : inst[i].isSelecting ~> ~inst[i].isSelecting

\* a timer that instance i left pending fires
TimerOf(i) ==
  \/ SettleTimer(i)
  \/ FocusTimer(i)
  \/ /\ inst[i].elem # 0
     /\ display[inst[i].elem].check = i
     /\ \E overflows \in BOOLEAN : OverflowTimer(inst[i].elem, overflows)

\* what is shown in the value element, the pending check aside
Shown(d) == [kind |-> d.kind, arg |-> d.arg, items |-> d.items]

\* C16: a pending continuation of an instance (settle timer, deferred focus,
\* pill overflow check) that fires after the instance was destroyed has no
\* effect: no instance state, no element content and no focus changes.
C16_TimersAfterDestroyAreNoOps ==
  [][\A i \in Slots :
       (inst[i].destroyed /\ TimerOf(i)) =>
          /\ inst'[i].isSelecting = inst[i].isSelecting
          /\ inst'[i].sel = inst[i].sel
          /\ \A e \in Elems : Shown(display'[e]) = Shown(display[e])
          /\ focus' = focus
          /\ UNCHANGED <<attrSel, hidden, marked, instances>>]_vars

Toggled(S, x) == IF x \in S THEN S \ {x} ELSE S \cup {x}

\* the state in which the settle window of instance i has passed
Settled(w, i) == [w EXCEPT !.inst[i].isSelecting = FALSE]

\* C17: in multi mode a selectItem call that passes the guard toggles exactly
\* the chosen option's value in selectedValues and leaves every other member
\* as it was; a second such call on the same option restores the original
\* set (after setValue([1, 2]), selectItem on 1 leaves exactly {2}).
C17_MultiToggles ==
  [][\A i \in Slots : \A item \in Options :
       (/\ inst[i].complete /\ inst[i].multiple /\ ~inst[i].isSelecting
        /\ SelectItemCall(i, item)) =>
          /\ Range(inst'[i].sel) = Toggled(Range(inst[i].sel), item)
          /\ Len(inst'[i].sel) = Cardinality(Range(inst'[i].sel))
          /\ Range(SelectItem(Settled(World', i), i, item).inst[i].sel) = Range(inst[i].sel)]_vars

C17_Witness ==
  \E i \in Slots :
    /\ Live(i) /\ inst[i].multiple
    /\ inst[i].sel = <<2>>
    /\ LastIs(events, "selectbox:change")
    /\ events[Len(events)].item = 1
    /\ events[Len(events)].prev = <<1, 2>>

\* C18: in single mode a selectItem call that passes the guard leaves
\* selectedValues equal to exactly the option's value whatever was selected
\* before (the selected option stays selected when chosen again), and exactly
\* that option carries data-selected="true".
C18_SingleSelectsExactly ==
  [][\A i \in Slots : \A item \in Options :
       (/\ inst[i].complete /\ ~inst[i].multiple /\ ~inst[i].isSelecting
        /\ SelectItemCall(i, item)) =>
          /\ inst'[i].sel = <<item>>
          /\ attrSel'[inst[i].elem] = {item}]_vars

C18_Witness ==
  \E i \in Slots :
    /\ Live(i) /\ inst[i].complete /\ ~inst[i].multiple
    /\ inst[i].sel = <<1>>
    /\ LastIs(events, "selectbox:change")
    /\ events[Len(events)].item = 1
    /\ events[Len(events)].prev = <<1>>

\* C19: every selectItem call that passes the guard dispatches exactly one
\* selectbox:change, after the set, the summary and the hidden field were
\* updated; its value is getValue() at that moment, its previousValue the
\* selection held just before the call, its item the option passed.
C19_SelectDispatchesOneChange ==
  [][\A i \in Slots : \A item \in Options :
       (inst[i].complete /\ ~inst[i].isSelecting /\ SelectItemCall(i, item)) =>
          /\ Cardinality(EventsOf(events', "selectbox:change")) = 1
          /\ LastIs(events', "selectbox:change")
          /\ events'[Len(events')].value = GetValue(inst'[i])
          /\ events'[Len(events')].prev = inst[i].sel
          /\ events'[Len(events')].item = item
          /\ hidden'[inst[i].elem] = inst'[i].sel]_vars

\* the supplied values for which an option exists
Matched(v) == IF v.tag = "null" THEN {} ELSE Range(v.v) \cap Options

\* C20: setValue clears the selection, then selects exactly the supplied
\* values that have a matching option and ignores the others without error,
\* and dispatches one selectbox:change whose previousValue is the selection
\* held before the call and whose value is getValue().
C20_SetValueSelectsMatching ==
  [][\A i \in Slots : \A v \in JSArgs \cup QuoteArgs :
       (inst[i].complete /\ SetValueCall(i, v)) =>
          /\ error' = "none"
          /\ Range(inst'[i].sel) = Matched(v)
          /\ attrSel'[inst[i].elem] = Matched(v)
          /\ Cardinality(EventsOf(events', "selectbox:change")) = 1
          /\ LastIs(events', "selectbox:change")
          /\ events'[Len(events')].value = GetValue(inst'[i])
          /\ events'[Len(events')].prev = inst[i].sel]_vars

\* C21: for every option of an active selection control, in every reachable
\* state, the option carries data-selected="true" exactly when its value is a
\* member of selectedValues, and a count summary shows the size of the set.
C21_MirrorMatchesSet ==
  \A i \in Slots :
    (Registered(i) /\ Active(i)) =>
      /\ attrSel[inst[i].elem] = Range(inst[i].sel)
      /\ display[inst[i].elem].kind = "count" =>
            display[inst[i].elem].arg = Len(inst[i].sel)

\* C22: an input event on the search field of a control, with any search
\* text, changes option visibility only: selectedValues, the hidden field, the
\* summary and every option's data-selected attribute stay as they were and
\* no selectbox:change is dispatched.
C22_SearchOnlyFilters ==
  [][\A e \in Elems, value \in Terms :
       (search'[e].text = value /\ SearchInput(e, value)) =>
         /\ \A i \in Slots : inst'[i] = inst[i]
         /\ hidden' = hidden /\ display' = display /\ attrSel' = attrSel
         /\ EventsOf(events', "selectbox:change") = {}
         /\ error' = "none"]_vars

\* the filter of a wired control hid a selected option
C22_Witness ==
  \E i \in Slots :
    /\ Registered(i) /\ Active(i)
    /\ search[inst[i].elem].hiddenOpts \cap Range(inst[i].sel) # {}
    /\ search[inst[i].elem].text # <<>>
    /\ LastIs(events, "input")

\* C23: every notification a controller dispatches on its root (selectbox:init,
\* selectbox:change, selectbox:reset, selectbox:destroy, stepper:change) reaches
\* a listener registered on any ancestor of the root.
C23_NotificationsBubble ==
  \A k \in 1..Len(events) :
    events[k].type \in {"selectbox:init", "selectbox:change", "selectbox:reset",
                        "selectbox:destroy", "stepper:change"}
      => HeardOnAncestor(events[k])

\* C24: for a step sequencer with N steps, 1 <= currentStep <= N in every
\* reachable state, after initialization from any data-current-step value and
\* after any trigger clicks, key presses, external clicks and stepper:navigate
\* notifications with any step payload.
C24_CurrentStepInRange ==
  \A s \in Steppers :
    stepper[s].ctl > 0 =>
      /\ stepper[s].currentStep # NaN
      /\ stepper[s].currentStep[1] \in 1..NumSteps

\* a step of the steppers that leaves container s as it was and dispatches no
\* stepper:change
StepperUntouched(s) ==
  /\ stepper'[s] = stepper[s]
  /\ EventsOf(events', "stepper:change") = {}

\* C25: for a sequencer with N steps, goToStep(0), goToStep(N+1), prevStep()
\* at step 1 and nextStep() at step N change neither currentStep nor any
\* status, panel visibility or the data-current-step attribute, and dispatch
\* no stepper:change.
C25_BoundaryCallsAreNoOps ==
  [][\A s \in Steppers :
       /\ Navigate(s, NumberToString(Num(0))) => StepperUntouched(s)
       /\ Navigate(s, NumberToString(Num(NumSteps + 1))) => StepperUntouched(s)
       /\ \A key \in {"ArrowLeft", "ArrowUp"} :
            (StrictEq(stepper[s].currentStep, Num(1)) /\ KeyDown(s, key))
              => StepperUntouched(s)
       /\ \A key \in {"ArrowRight", "ArrowDown"} :
            (StrictEq(stepper[s].currentStep, Num(NumSteps)) /\ KeyDown(s, key))
              => StepperUntouched(s)]_vars

\* a controller at step N has just been handed goToStep(N+1)
C25_Witness ==
  \E s \in Steppers :
    /\ stepper[s].ctl > 0
    /\ StrictEq(stepper[s].currentStep, Num(NumSteps))
    /\ events = <<Ev("stepper:navigate", s, 0,
                      Scalar(NumberToString(Num(NumSteps + 1))), <<>>, 0)>>

\* the statuses of container s are those the step numbers and the integer c
\* determine, and the one stepper:change of the call carries c
StatusesFollow(st, evs, s, c) ==
  /\ st[s].currentStep = Num(c)
  /\ \A n \in Steps :
       st[s].status[n] = IF n < c THEN "completed"
                         ELSE IF n = c THEN "active"
                         ELSE "incomplete"
  /\ \E k \in 1..Len(evs) :
       /\ {j \in EventsOf(evs, "stepper:change") : evs[j].el = s} = {k}
       /\ evs[k].value = Scalar(Num(c))

\* C26: after initialization and after every accepted goToStep(n), 1 <= n <= N,
\* each step is completed when its number is below currentStep, active when
\* equal and incomplete when above; no step is ever given the error status;
\* exactly one stepper:change carrying the new step number follows.
C26_StatusIsFunctionOfStep ==
  [][/\ \A s \in Steppers, n \in Steps : stepper'[s].status[n] # "error"
     /\ \A s \in Steppers, root \in {0} \cup Steppers :
          (StepperInit(root) /\ stepper[s].ctl = 0 /\ stepper'[s].ctl > 0)
            => \E c \in -1..(NumSteps + 1) : StatusesFollow(stepper', events', s, c)
     /\ \A s \in Steppers, n \in Steps :
          (stepper[s].ctl > 0 /\ (Navigate(s, NumberToString(Num(n))) \/ TriggerClick(s, n)))
            => StatusesFollow(stepper', events', s, n)]_vars

\* goToStep(N) was accepted: every earlier step is completed
C26_Witness ==
  \E s \in Steppers :
    /\ stepper[s].ctl > 0
    /\ stepper[s].currentStep = Num(NumSteps)
    /\ stepper[s].status[1] = "completed"
    /\ Len(events) = 2
    /\ events[1].type = "stepper:navigate" /\ events[2].type = "stepper:change"

\* C27: in every reachable state of an initialized sequencer with one content
\* panel per step exactly one panel is visible, the one whose step number is
\* currentStep, after initialization from any data-current-step value and
\* after any navigation.
C27_OnePanelVisible ==
  \A s \in Steppers :
    stepper[s].ctl > 0 =>
      \E n \in Steps : stepper[s].shown = {n} /\ stepper[s].currentStep = Num(n)

\* the call dispatched no stepper:navigate
NoNavigation == EventsOf(events', "stepper:navigate") = {}

\* C28: a click on an external next, prev or goto trigger that refers to an
\* initialized sequencer leaves every sequencer as the internal nextStep(),
\* prevStep() or goToStep(n) made from the same state would, changes the
\* sequencer only when a stepper:navigate was dispatched, and dispatches no
\* stepper:navigate at a boundary (next at N, prev at 1, goto outside 1..N).
C28_ExternalEqualsInternal ==
  [][\A s \in Steppers :
       stepper[s].ctl > 0 =>
         /\ ExternalNext(s) =>
              /\ stepper' = NextStep(StepperEntered, s).st
              /\ StrictEq(stepper[s].currentStep, Num(NumSteps)) => NoNavigation
         /\ ExternalPrev(s) =>
              /\ stepper' = PrevStep(StepperEntered, s).st
              /\ StrictEq(stepper[s].currentStep, Num(1)) => NoNavigation
         /\ \A n \in 0..(NumSteps + 2) :
              ExternalGoto(s, NumberToString(Num(n))) =>
                /\ stepper' = GoToStep(StepperEntered, s, NumberToString(Num(n))).st
                /\ n \notin Steps => NoNavigation
         /\ (ExternalNext(s) \/ ExternalPrev(s)
               \/ \E t \in GotoTargets : ExternalGoto(s, t))
              => (stepper' # stepper => ~NoNavigation)]_vars

\* the calendar, counted out: leap years, month lengths, days since 1970
IsLeap(y) == y % 4 = 0 /\ (y % 100 # 0 \/ y % 400 = 0)
MonthLength(y, m) ==
  IF m = 2 THEN (IF IsLeap(y) THEN 29 ELSE 28)
  ELSE IF m \in {4, 6, 9, 11} THEN 30 ELSE 31
RealDate(y, m, d) == m \in 1..12 /\ d \in 1..MonthLength(y, m)

RECURSIVE DaysBeforeYear(_)
DaysBeforeYear(y) ==
  IF y = 1970 THEN 0
  ELSE IF y > 1970 THEN DaysBeforeYear(y - 1) + (IF IsLeap(y - 1) THEN 366 ELSE 365)
  ELSE DaysBeforeYear(y + 1) - (IF IsLeap(y) THEN 366 ELSE 365)

RECURSIVE DaysBeforeMonth(_, _)
DaysBeforeMonth(y, m) ==
  IF m = 1 THEN 0 ELSE DaysBeforeMonth(y, m - 1) + MonthLength(y, m - 1)

\* the instant lies within the UTC day y-m-d
OnDay(date, y, m, d) ==
  LET start == (DaysBeforeYear(y) + DaysBeforeMonth(y, m) + d - 1) * 86400
  IN date[1] >= start /\ date[1] < start + 86400

\* the year, month and day a date-shaped string writes
Written(str) ==
  [y |-> DigitsValue(SubSeq(str, 1, 4)), m |-> DigitsValue(SubSeq(str, 6, 7)),
   d |-> DigitsValue(SubSeq(str, 9, 10))]

\* C29: both date parsers return null for every ISO-shaped string whose year,
\* month and day are no real calendar date (2023-02-30, 2023-13-01,
\* 2023-02-29, 2023-00-10, 2023-04-31, ...), and the UTC instant they return
\* for a string they accept has the year, month and day the string writes.
C29_ParsersRejectUnrealDates ==
  \A p \in Pickers :
    (picker[p].parsed.called /\ DateShaped(picker[p].value)) =>
      LET w == Written(picker[p].value)
          date == picker[p].parsed.date
          dateTime == picker[p].parsed.dateTime
      IN /\ ~RealDate(w.y, w.m, w.d) => date = NoDate /\ dateTime = NoDate
         /\ date # NoDate => RealDate(w.y, w.m, w.d) /\ OnDay(date, w.y, w.m, w.d)
         /\ dateTime # NoDate => RealDate(w.y, w.m, w.d) /\ OnDay(dateTime, w.y, w.m, w.d)

\* 2023-02-30 has been parsed and both parsers returned null
C29_Witness ==
  \E p \in Pickers :
    /\ picker[p].parsed.called
    /\ picker[p].value = IsoString(2023, 2, 30, <<>>)
    /\ picker[p].parsed.date = NoDate /\ picker[p].parsed.dateTime = NoDate

\* what the two-level fallback shows for an instant: the locale's medium
\* rendering in UTC when the retry succeeds, YYYY-MM-DD when it throws too
TwoLevelFallback(p, date) ==
  IF ~IntlThrows(p.localeOk, FALSE) THEN Localized("medium", FALSE, date[1])
  ELSE Literal(YearMonthDay(date[1]))

\* C30: when Intl.DateTimeFormat throws while the date picker formats the
\* selected or the initial date, nothing is thrown to the caller and the
\* display shows the retry with the medium style in UTC, or YYYY-MM-DD of the
\* UTC date when the retry throws as well.
C30_TwoLevelFallback ==
  [][\A d \in Pickers :
       IntlThrows(picker[d].localeOk, picker[d].withTime) =>
         /\ \A date \in PickDates, hour \in Hours :
              CalendarSelect(d, date, hour) =>
                /\ error' = "none"
                /\ picker'[d].display =
                     TwoLevelFallback(picker[d],
                       IF picker[d].withTime THEN <<SetUTCHours(date[1], hour, 0, 0)>>
                       ELSE date)
         /\ \A root \in {0} \cup Pickers :
              (/\ PickerInit(root)
               /\ picker[d].ctl = 0 /\ picker'[d].ctl > 0
               /\ ParseISODateTime(picker[d].value) # NoDate) =>
                /\ error' = "none"
                /\ picker'[d].display =
                     TwoLevelFallback(picker[d], ParseISODateTime(picker[d].value))]_vars

\* C38: parseISODate and parseISODateTime accept every YYYY-MM-DD string that
\* denotes a real calendar date, for every year 0000 to 9999, years below
\* 0100 included, and return the UTC instant of that year, month and day.
C38_ParsersAcceptRealDates ==
  \A p \in Pickers :
    (/\ picker[p].parsed.called
     /\ DateShaped(picker[p].value) /\ Len(picker[p].value) = 10) =>
      LET w == Written(picker[p].value)
          date == picker[p].parsed.date
          dateTime == picker[p].parsed.dateTime
      IN RealDate(w.y, w.m, w.d) =>
           /\ date # NoDate /\ dateTime # NoDate
           /\ OnDay(date, w.y, w.m, w.d) /\ OnDay(dateTime, w.y, w.m, w.d)

\* the hour, minute and second a date-time string writes after its date (the
\* seconds are 0 when it writes none); timed is FALSE when it writes no time
WrittenTime(str) ==
  LET timed == /\ Len(str) >= 16 /\ str[11] \in {"T", " "} /\ str[14] = ":"
               /\ \A k \in {12, 13, 15, 16} : IsDigit(str[k])
      seconds == /\ timed /\ Len(str) >= 19 /\ str[17] = ":"
                 /\ IsDigit(str[18]) /\ IsDigit(str[19])
  IN [timed |-> timed,
      h |-> IF timed THEN DigitsValue(SubSeq(str, 12, 13)) ELSE 0,
      m |-> IF timed THEN DigitsValue(SubSeq(str, 15, 16)) ELSE 0,
      s |-> IF seconds THEN DigitsValue(SubSeq(str, 18, 19)) ELSE 0]

\* C39: parseISODateTime returns null for every date-time string whose hour
\* is above 23 or whose minute or second is above 59, and the instant it
\* returns for a string it accepts has the UTC hour, minute and second the
\* string writes.
C39_TimeFieldsInRange ==
  \A p \in Pickers :
    (/\ picker[p].parsed.called
     /\ DateShaped(picker[p].value) /\ WrittenTime(picker[p].value).timed) =>
      LET w == WrittenTime(picker[p].value)
          dateTime == picker[p].parsed.dateTime
      IN /\ (w.h > 23 \/ w.m > 59 \/ w.s > 59) => dateTime = NoDate
         /\ dateTime # NoDate =>
              dateTime[1] % 86400 = w.h * 3600 + w.m * 60 + w.s

\* what a completed init leaves on a complete element: registered, marked, one
\* set of listeners
InitState(e) ==
  /\ instances[e] # 0 /\ marked[e]
  /\ AttachedOn(e) = {instances[e]}

\* what a completed destroy leaves on an element: unregistered, unmarked, no
\* listeners
DestroyState(e) == instances[e] = 0 /\ ~marked[e] /\ AttachedOn(e) = {}

SbComplete(e) == markup[e].present /\ markup[e].hasTrigger /\ markup[e].hasParts

\* C31: whatever init and destroy calls interleave on an element, calls made
\* from listeners of selectbox:init and selectbox:destroy included, once no
\* call is running the element is in the state of the call that completed
\* last: registered, marked and with one set of listeners after init;
\* unregistered, unmarked and without listeners after destroy.
C31_LastOperationWins ==
  [][\A e \in Elems :
       (SbComplete(e) /\ stack' = <<>> /\ error' = "none") =>
         /\ (stack = <<>> /\ SbInit(e)) => InitState(e)'
         /\ (stack # <<>> /\ stack[1].op = "init" /\ stack[1].elem = e) => InitState(e)'
         /\ (stack = <<>> /\ SbDestroy(e)) => DestroyState(e)'
         /\ (stack # <<>> /\ stack[1].op = "destroy" /\ stack[1].elem = e) =>
              DestroyState(e)']_vars

\* C37: a dialog that openModal opened stays open until a later close request:
\* the timer of a closeModal call never closes a dialog on which openModal
\* ran after that call, and one closeModal call closes the dialog at most
\* once.
C37_StaleTimerNeverCloses ==
  [][\A m \in Modals :
       (CloseTimer(m) /\ modal[m].open) =>
         /\ ~Head(modal[m].timers)
         /\ Len(modal'[m].timers) = Len(modal[m].timers) - 1]_vars

\* the place of the focused option among the visible options of e, 0 when the
\* focus is on none of them
PlaceOfFocus(e) ==
  IF focus.kind = "option" /\ focus.el = e
    THEN IndexOf(VisibleItems(e), focus.opt) + 1
    ELSE 0

C34_DisabledNeverSelected ==
  \A i \in Slots :
    inst[i].elem # 0 => Range(inst[i].sel) \cap markup[inst[i].elem].disabled = {}

\* the options a search text hides: the text, surrounding blanks aside, is not
\* empty and, letter case aside, is part of neither the label nor the value
HiddenBy(e, text) ==
  {o \in Options :
     /\ Trim(text) # <<>>
     /\ ~Includes(ToLowerCase(ItemText(e, o)), ToLowerCase(Trim(text)))
     /\ ~Includes(ToLowerCase(ItemValue(e, o)), ToLowerCase(Trim(text)))}

\* C36: in a control with a search field the hidden options are those the
\* field's current text hides: after the user typed in the field, after
\* reset(), and after a printable key on the trigger has seeded the field.
C36_HiddenMatchesText ==
  [][\A e \in Elems :
       (/\ search[e].present
        /\ ListenersOn(World, e) # {}
        /\ \/ \E value \in Typed : search'[e].text = value /\ UserTypes(e, value)
           \/ \E i \in ListenersOn(World, e) : ResetCall(i)
           \/ SeedTimer(e)) =>
         search'[e].hiddenOpts = HiddenBy(e, search'[e].text)]_vars

\* selectbox:reset notifications of element e among evs
ResetsOf(evs, e) == {k \in EventsOf(evs, "selectbox:reset") : evs[k].el = e}

\* C33: a click on a reset trigger resets the active controls its identifier
\* designates, each once, and leaves the selection of every other control as
\* it was, whenever the trigger was inserted; a destroyed control is not
\* reset by its trigger and no selectbox:reset is dispatched for it.
C33_ResetClickResetsDesignated ==
  [][\A sel \in {0} \cup Elems :
       ResetClick(sel) =>
         /\ \A i \in Slots :
              inst[i].elem # 0 =>
                IF inst[i].attached /\ inst[i].elem = sel
                  THEN /\ inst'[i].sel = <<>>
                       /\ hidden'[sel] = <<>>
                       /\ Cardinality(ResetsOf(events', sel)) = 1
                  ELSE inst'[i].sel = inst[i].sel
         /\ \A e \in Elems :
              (e # sel \/ ListenersOn(World, e) = {}) =>
                /\ hidden'[e] = hidden[e] /\ attrSel'[e] = attrSel[e]
                /\ ResetsOf(events', e) = {}]_vars

\* a click has reset one control while the other one, or a destroyed
\* controller, kept its selection
C33_Witness ==
  \E e \in Elems :
    /\ ResetsOf(events, e) # {}
    /\ hidden[e] = <<>>
    /\ \E j \in Slots : inst[j].elem # 0 /\ inst[j].elem # e /\ inst[j].sel # <<>>

\* C35: once an instance is destroyed no user interaction with its element
\* (a click on an option, a key in the content, a click on the remove button
\* of a pill, a visibility change of the content) changes its selectedValues,
\* the hidden field or the focus, or dispatches selectbox:change.
C35_DestroyedIsInert ==
  [][\A i \in Slots :
       LET e == inst[i].elem
       IN (/\ e # 0 /\ inst[i].destroyed
           /\ ListenersOn(World, e) = {}
           /\ \/ \E o \in Options : ItemClick(e, o) \/ PillRemove(e, o)
              \/ \E b \in BOOLEAN : ArrowKey(e, b) \/ ContentMutation(e, b)
              \/ EnterKey(e)) =>
            /\ inst'[i].sel = inst[i].sel
            /\ hidden'[e] = hidden[e]
            /\ focus' = focus
            /\ EventsOf(events', "selectbox:change") = {}]_vars

====
